---- MODULE Spec2Model ----
(***************************************************************************)
(* Model of sqlite-schema-diff: the diff planner (Diff and its helpers),   *)
(* the schema extraction it consumes and the applier (Apply) that runs a   *)
(* plan inside one transaction.                                            *)
(*                                                                         *)
(* SQL text is a sequence of lexical atoms: a word (identifier, keyword,   *)
(* number), one whitespace character, one punctuation character or one     *)
(* quote character.  The string functions of the code act on atoms as on   *)
(* the bytes they stand for: none of them splits a word.                   *)
(***************************************************************************)
EXTENDS Integers, Sequences, FiniteSets, TLC

VARIABLES
    from,        \* snapshot the plan starts from (Compare: extracted from the database)
    to,          \* target snapshot (Compare: loaded from the schema directory)
    plan,        \* what Diff returned
    changes,     \* Apply's local list: the plan, filtered under SkipDestructive
    opts,        \* ApplyOptions
    pc,          \* position inside Apply
    db,          \* the database: the committed rows of sqlite_master
    db0,         \* the database when Apply was called
    tx,          \* the open transaction and its working copy of the rows
    ci,          \* index of the change being executed
    si,          \* index of the statement inside that change
    log,         \* commands issued on the connection, in order
    fk,          \* foreign-key enforcement of the connection
    backup,      \* the backup file: NoFile, or a file and the rows it holds
    result,      \* what Apply returned: Running, Nil or an error
    baseFS,      \* the package variable of the parser: NoFS (nil) or a filesystem
    disk,        \* the filesystem of the operating system
    args,        \* the arguments of the function that is called on its own
    ret          \* what that function returned

vars == <<from, to, plan, changes, opts, pc, db, db0, tx, ci, si, log, fk, backup, result,
          baseFS, disk, args, ret>>

----------------------------------------------------------------------------
(* Strings *)

Space == {" ", "\n", "\t"}
\* the atom that stands for the backquote character (the lexer of TLA+ reserves it)
Backtick == "BACKTICK"
\* an atom that is neither whitespace, punctuation nor a quote character
IsWord(a) == a \notin Space \cup {"(", ")", ",", "=", ";"} \cup {"\"", Backtick, "[", "]", "'"}

UpperWords ==
    <<"CREATE", "TABLE", "INDEX", "UNIQUE", "VIEW", "TRIGGER", "ON", "AS", "SELECT",
      "FROM", "AFTER", "INSERT", "DELETE", "BEGIN", "END", "INTEGER", "TEXT", "REAL",
      "BLOB", "PRIMARY", "KEY", "NOT", "NULL", "DEFAULT", "IF", "EXISTS", "X",
      "DROP", "ALTER", "ADD", "COLUMN", "RENAME", "TO", "INTO", "SQL">>

LowerWords ==
    <<"create", "table", "index", "unique", "view", "trigger", "on", "as", "select",
      "from", "after", "insert", "delete", "begin", "end", "integer", "text", "real",
      "blob", "primary", "key", "not", "null", "default", "if", "exists", "x",
      "drop", "alter", "add", "column", "rename", "to", "into", "sql">>

\* strings.ToLower on one word
LowerWord(a) ==
    IF \E k \in 1..Len(UpperWords) : UpperWords[k] = a
    THEN LowerWords[CHOOSE k \in 1..Len(UpperWords) : UpperWords[k] = a]
    ELSE a

\* strings.ToLower
ToLower(s) == [k \in 1..Len(s) |-> LowerWord(s[k])]

\* strings.EqualFold
EqualFold(a, b) == LowerWord(a) = LowerWord(b)

RECURSIVE TrimLeft(_)
TrimLeft(s) == IF s # <<>> /\ Head(s) \in Space THEN TrimLeft(Tail(s)) ELSE s

RECURSIVE TrimRight(_)
TrimRight(s) ==
    IF s # <<>> /\ s[Len(s)] \in Space THEN TrimRight(SubSeq(s, 1, Len(s) - 1)) ELSE s

\* strings.TrimSpace
TrimSpace(s) == TrimRight(TrimLeft(s))

\* strings.HasSuffix(s, a) for a one-character suffix
HasSuffix(s, a) == s # <<>> /\ s[Len(s)] = a

\* strings.HasPrefix(s, "--")
HasCommentPrefix(s) == Len(s) >= 2 /\ s[1] = "-" /\ s[2] = "-"

\* strings.TrimSuffix(s, a) for a one-character suffix
TrimSuffix(s, a) == IF HasSuffix(s, a) THEN SubSeq(s, 1, Len(s) - 1) ELSE s

\* strings.ReplaceAll(s, a, "") for each a of a set of characters
RemoveAll(s, set) == SelectSeq(s, LAMBDA a : a \notin set)

\* strings.Join(strings.Fields(s), " ")
RECURSIVE CollapseSpace(_)
CollapseSpace(s) ==
    IF s = <<>> THEN <<>>
    ELSE IF Head(s) \in Space
         THEN LET r == TrimLeft(s) IN IF r = <<>> THEN <<>> ELSE <<" ">> \o CollapseSpace(r)
         ELSE <<Head(s)>> \o CollapseSpace(Tail(s))

\* strings.ReplaceAll(s, x+y, r): non-overlapping matches of the two-character
\* pattern x y, left to right
RECURSIVE ReplaceAll2(_, _, _, _)
ReplaceAll2(s, x, y, r) ==
    IF Len(s) < 2 THEN s
    ELSE IF s[1] = x /\ s[2] = y THEN r \o ReplaceAll2(SubSeq(s, 3, Len(s)), x, y, r)
    ELSE <<s[1]>> \o ReplaceAll2(Tail(s), x, y, r)

\* strings.ReplaceAll(s, x, r) for a one-character pattern
RECURSIVE ReplaceAll1(_, _, _)
ReplaceAll1(s, x, r) ==
    IF s = <<>> THEN <<>>
    ELSE (IF s[1] = x THEN r ELSE <<s[1]>>) \o ReplaceAll1(Tail(s), x, r)

\* for strings.Contains(sql, "  ") { sql = strings.ReplaceAll(sql, "  ", " ") }
RECURSIVE CollapseDouble(_)
CollapseDouble(s) ==
    IF \E k \in 1..(Len(s) - 1) : s[k] = " " /\ s[k + 1] = " " THEN CollapseDouble(ReplaceAll2(s, " ", " ", <<" ">>)) ELSE s

\* the loop over "(", ")", ",", "=" removing the space before and after each
TightenPunct(s) ==
    LET TightenOne(x, ch) == ReplaceAll2(ReplaceAll2(x, " ", ch, <<ch>>), ch, " ", <<ch>>)
    IN  TightenOne(TightenOne(TightenOne(TightenOne(s, "("), ")"), ","), "=")

\* the common tail of normalizeSQL and normalizeTableSQL
NormalizeTail(s) ==
    CollapseDouble(ReplaceAll1(TightenPunct(ToLower(CollapseSpace(TrimSpace(s)))), ",", <<",", " ">>))

normalizeSQL(sql) == NormalizeTail(TrimSuffix(TrimSpace(sql), ";"))

normalizeTableSQL(sql) ==
    NormalizeTail(RemoveAll(TrimSuffix(TrimSpace(sql), ";"), {"\"", Backtick, "[", "]"}))

normalizeDefault(s) == ToLower(TrimSpace(s))

\* the placeholders fmt.Sprintf("__str_protect_%d__", i) of the literals 0, 1, ...
Placeholders ==
    <<"__str_protect_0__", "__str_protect_1__", "__str_protect_2__", "__str_protect_3__">>

\* stringLiteralRe from an opening quote on: the position of the closing quote
\* of the match whose content starts at k, 0 when there is none; a doubled
\* quote is content when the match can be closed behind it
RECURSIVE LiteralEnd(_, _)
LiteralEnd(s, k) ==
    IF k > Len(s) THEN 0
    ELSE IF s[k] # "'" THEN LiteralEnd(s, k + 1)
    ELSE IF k < Len(s) /\ s[k + 1] = "'" /\ LiteralEnd(s, k + 2) # 0 THEN LiteralEnd(s, k + 2)
    ELSE k

\* the matches of stringLiteralRe in s, left to right (the slice literals)
RECURSIVE Literals(_)
Literals(s) ==
    IF s = <<>> THEN <<>>
    ELSE IF s[1] = "'" /\ LiteralEnd(s, 2) # 0
    THEN <<SubSeq(s, 1, LiteralEnd(s, 2))>> \o Literals(SubSeq(s, LiteralEnd(s, 2) + 1, Len(s)))
    ELSE Literals(Tail(s))

\* stringLiteralRe.ReplaceAllStringFunc: match number n and the following
\* replaced by " " + ph[n] + " "
RECURSIVE MaskedText(_, _, _)
MaskedText(s, n, ph) ==
    IF s = <<>> THEN <<>>
    ELSE IF s[1] = "'" /\ LiteralEnd(s, 2) # 0
    THEN <<" ", ph[n], " ">> \o MaskedText(SubSeq(s, LiteralEnd(s, 2) + 1, Len(s)), n + 1, ph)
    ELSE <<s[1]>> \o MaskedText(Tail(s), n, ph)

\* strings.Replace(s, a, r, 1) for a one-word pattern
RECURSIVE ReplaceFirst(_, _, _)
ReplaceFirst(s, a, r) ==
    IF s = <<>> THEN <<>>
    ELSE IF s[1] = a THEN r \o Tail(s)
    ELSE <<s[1]>> \o ReplaceFirst(Tail(s), a, r)

\* the loop that puts literal i and the following back for their placeholders
RECURSIVE Unmask(_, _, _, _)
Unmask(s, lits, i, ph) ==
    IF i > Len(lits) THEN s ELSE Unmask(ReplaceFirst(s, ph[i], lits[i]), lits, i + 1, ph)

performNormalization(sql, stripQuotes) ==
    LET s == TrimSuffix(TrimSpace(sql), ";") IN
    TrimSpace(NormalizeTail(IF stripQuotes THEN RemoveAll(s, {"\"", Backtick, "[", "]"}) ELSE s))

\* normalizeSQL(sql, stripQuotes), the function that masks the string literals
normalizeSQL2(sql, stripQuotes) ==
    Unmask(performNormalization(MaskedText(sql, 1, Placeholders), stripQuotes),
           Literals(sql), 1, Placeholders)

ensureSemicolon(sql) ==
    LET s == TrimSpace(sql) IN IF HasSuffix(s, ";") THEN s ELSE s \o <<";">>

\* byte values of the object names, for cmp.Compare on strings
NameBytes ==
    [p |-> <<112>>, t |-> <<116>>, i |-> <<105>>, j |-> <<106>>, v |-> <<118>>, g |-> <<103>>]

RECURSIVE CompareBytes(_, _)
CompareBytes(a, b) ==
    IF a = <<>> /\ b = <<>> THEN 0
    ELSE IF a = <<>> THEN -1
    ELSE IF b = <<>> THEN 1
    ELSE IF a[1] < b[1] THEN -1
    ELSE IF a[1] > b[1] THEN 1
    ELSE CompareBytes(Tail(a), Tail(b))

\* cmp.Compare(a, b) on strings
CompareString(a, b) == CompareBytes(NameBytes[a], NameBytes[b])

\* cmp.Compare(a, b) on ints
CompareInt(a, b) == IF a < b THEN -1 ELSE IF a > b THEN 1 ELSE 0

RECURSIVE Flatten(_)
Flatten(ss) == IF ss = <<>> THEN <<>> ELSE Head(ss) \o Flatten(Tail(ss))

----------------------------------------------------------------------------
(* Schema model: pkg/schema *)

NoDefault == <<>>

\* schema.Column; Default is NoDefault (nil) or <<text>>
Column(name, type, notNull, default, pk) ==
    [Name |-> name, Type |-> type, NotNull |-> notNull, Default |-> default,
     PrimaryKey |-> pk]

\* schema.Table
Table(name, columns, sql) == [Name |-> name, Columns |-> columns, SQL |-> sql]

\* schema.Index and schema.Trigger
Owned(name, table, sql) == [Name |-> name, Table |-> table, SQL |-> sql]

\* schema.View
View(name, sql) == [Name |-> name, SQL |-> sql]

EmptyMap == [n \in {} |-> n]

\* schema.NewDatabase
NewDatabase == [Tables |-> EmptyMap, Indexes |-> EmptyMap, Views |-> EmptyMap,
                Triggers |-> EmptyMap]

ColumnNames(t) == [k \in 1..Len(t.Columns) |-> t.Columns[k].Name]

HasColumn(t, name) == \E k \in 1..Len(t.Columns) : t.Columns[k].Name = name

\* GetColumn, for a name HasColumn accepts
GetColumn(t, name) ==
    t.Columns[CHOOSE k \in 1..Len(t.Columns) :
                  /\ t.Columns[k].Name = name
                  /\ \A m \in 1..(k - 1) : t.Columns[m].Name # name]

----------------------------------------------------------------------------
(* What SQLite reads in a statement.  Tokens are the atoms of the text     *)
(* without whitespace and identifier quotes; keywords match in any case.   *)

IdentQuote == {"\"", Backtick, "[", "]"}

Tokens(text) == SelectSeq(text, LAMBDA a : a \notin Space /\ a \notin IdentQuote)

Kw(a, word) == LowerWord(a) = word

\* position of the first token equal to a, 0 when there is none
FirstPos(ts, a) ==
    IF \E k \in 1..Len(ts) : ts[k] = a
    THEN CHOOSE k \in 1..Len(ts) : ts[k] = a /\ \A m \in 1..(k - 1) : ts[m] # a
    ELSE 0

LastPos(ts, a) ==
    IF \E k \in 1..Len(ts) : ts[k] = a
    THEN CHOOSE k \in 1..Len(ts) : ts[k] = a /\ \A m \in (k + 1)..Len(ts) : ts[m] # a
    ELSE 0

\* the pieces of ts between the separators a
RECURSIVE SplitOn(_, _)
SplitOn(ts, a) ==
    LET k == FirstPos(ts, a) IN
    IF k = 0 THEN <<ts>>
    ELSE <<SubSeq(ts, 1, k - 1)>> \o SplitOn(SubSeq(ts, k + 1, Len(ts)), a)

\* the items of the parenthesised body of a CREATE TABLE: column definitions
\* and table constraints
TableItems(text) ==
    LET ts == Tokens(text) IN
    SplitOn(SubSeq(ts, FirstPos(ts, "(") + 1, LastPos(ts, ")") - 1), ",")

IsConstraintItem(item) == item # <<>> /\ Kw(item[1], "unique")

\* the column a column definition declares; pk is its PRIMARY KEY ordinal
ParseColumn(item, pk) ==
    LET hasType == Len(item) >= 2 /\ LowerWord(item[2]) \notin {"primary", "not", "default", "unique"}
        isPK == \E k \in 1..(Len(item) - 1) : Kw(item[k], "primary") /\ Kw(item[k + 1], "key")
        notNull == \E k \in 1..(Len(item) - 1) : Kw(item[k], "not") /\ Kw(item[k + 1], "null")
        d == CHOOSE k \in 0..Len(item) :
                 \/ k > 0 /\ Kw(item[k], "default") /\ \A m \in 1..(k - 1) : ~Kw(item[m], "default")
                 \/ k = 0 /\ \A m \in 1..Len(item) : ~Kw(item[m], "default")
        dEnd == IF d > 0 /\ d < Len(item) /\ item[d + 1] = "'" THEN d + 2 ELSE d + 1
    IN  Column(item[1],
               IF hasType THEN item[2] ELSE "",
               notNull,
               IF d = 0 THEN NoDefault ELSE <<SubSeq(item, d + 1, dEnd)>>,
               IF isPK THEN pk ELSE 0)

\* PRAGMA table_info: the columns of a CREATE TABLE text, in order
TableInfo(text) ==
    LET items == SelectSeq(TableItems(text), LAMBDA it : ~IsConstraintItem(it))
        isPK(it) == \E k \in 1..(Len(it) - 1) : Kw(it[k], "primary") /\ Kw(it[k + 1], "key")
        ord(n) == Cardinality({m \in 1..n : isPK(items[m])})
    IN  [n \in 1..Len(items) |-> ParseColumn(items[n], ord(n))]

\* whether the table declares a UNIQUE table constraint (SQLite then keeps an
\* automatic index for it)
HasUniqueConstraint(text) ==
    LET items == TableItems(text) IN \E n \in 1..Len(items) : IsConstraintItem(items[n])

----------------------------------------------------------------------------
(* The diff planner *)

CreateTable == "CREATE_TABLE"
DropTable == "DROP_TABLE"
AddColumn == "ADD_COLUMN"
RecreateTable == "RECREATE_TABLE"
CreateIndex == "CREATE_INDEX"
DropIndex == "DROP_INDEX"
CreateView == "CREATE_VIEW"
DropView == "DROP_VIEW"
CreateTrigger == "CREATE_TRIGGER"
DropTrigger == "DROP_TRIGGER"

Change(type, object, description, sql, destructive) ==
    [Type |-> type, Object |-> object, Description |-> description, SQL |-> sql,
     Destructive |-> destructive]

\* fmt's %q of a name
Q(name) == <<"\"", name, "\"">>

\* a comparison of the primary-key ordinals themselves
columnChangedOrdinal(a, b) ==
    LET fromDefault == IF a.Default # NoDefault THEN normalizeDefault(a.Default[1]) ELSE <<>>
        toDefault == IF b.Default # NoDefault THEN normalizeDefault(b.Default[1]) ELSE <<>>
    IN  \/ ~EqualFold(a.Type, b.Type)
        \/ a.NotNull # b.NotNull
        \/ a.PrimaryKey # b.PrimaryKey
        \/ fromDefault # toDefault

columnChanged(a, b) ==
    LET fromDefault == IF a.Default # NoDefault THEN normalizeDefault(a.Default[1]) ELSE <<>>
        toDefault == IF b.Default # NoDefault THEN normalizeDefault(b.Default[1]) ELSE <<>>
    IN  \/ ~EqualFold(a.Type, b.Type)
        \/ a.NotNull # b.NotNull
        \/ (a.PrimaryKey > 0) # (b.PrimaryKey > 0)
        \/ fromDefault # toDefault

\* a comparison that normalizes the text of one side only
tableDefinitionChangedRaw(a, b) == normalizeTableSQL(a.SQL) # b.SQL

\* a comparison that never reports a changed definition
tableDefinitionChangedNever(a, b) == FALSE

tableDefinitionChanged(a, b) == normalizeTableSQL(a.SQL) # normalizeTableSQL(b.SQL)

generateAddColumnSQL(tableName, col) ==
    <<"ALTER", " ", "TABLE", " ">> \o Q(tableName) \o <<" ", "ADD", " ", "COLUMN", " ">>
    \o Q(col.Name)
    \o (IF col.Type # "" THEN <<" ", col.Type>> ELSE <<>>)
    \o (IF col.NotNull
        THEN IF col.Default # NoDefault
             THEN <<" ", "NOT", " ", "NULL", " ", "DEFAULT", " ">> \o col.Default[1]
             ELSE <<" ", "DEFAULT", " ", "'", "'">>
        ELSE IF col.Default # NoDefault THEN <<" ", "DEFAULT", " ">> \o col.Default[1]
        ELSE <<>>)
    \o <<";">>

\* the common columns in the order of the table they are copied from
commonColumnsOfSource(a, b) ==
    LET names == ColumnNames(a) IN SelectSeq(names, LAMBDA n : HasColumn(b, n))

commonColumns(a, b) ==
    LET names == ColumnNames(b) IN SelectSeq(names, LAMBDA n : HasColumn(a, n))

\* strings.Join(names, ", ")
RECURSIVE JoinComma(_)
JoinComma(names) ==
    IF names = <<>> THEN <<>>
    ELSE IF Len(names) = 1 THEN <<names[1]>>
    ELSE <<names[1], ",", " ">> \o JoinComma(Tail(names))

\* the number of whitespace atoms of s from position p on
RECURSIVE SpaceRun(_, _)
SpaceRun(s, p) == IF p <= Len(s) /\ s[p] \in Space THEN 1 + SpaceRun(s, p + 1) ELSE 0

NameQuote == {"\"", "'", Backtick}

\* the position behind the keyword w at position p of s and the whitespace
\* after it (w\s+), 0 when they are not there
SkipKeyword(s, p, w) ==
    IF p > 0 /\ p <= Len(s) /\ Kw(s[p], w) /\ SpaceRun(s, p + 1) > 0
    THEN p + 1 + SpaceRun(s, p + 1)
    ELSE 0

\* length of the match of tableNameRe at the start of s up to and including
\* group 1 (CREATE\s+TABLE\s+(?:IF\s+NOT\s+EXISTS\s+)?), 0 when it does not match
TableNamePrefix(s) ==
    LET name == SkipKeyword(s, SkipKeyword(s, 1, "create"), "table")
        ifne == SkipKeyword(s, SkipKeyword(s, SkipKeyword(s, name, "if"), "not"), "exists")
    IN  IF name = 0 THEN 0 ELSE IF ifne > 0 THEN ifne - 1 ELSE name - 1

\* tableNameRe.ReplaceAllString(sql, "${1}" + %q(newName))
RECURSIVE replaceTableName(_, _)
replaceTableName(sql, newName) ==
    IF sql = <<>> THEN <<>>
    ELSE LET n == TableNamePrefix(sql)
             r == SubSeq(sql, n + 1, Len(sql))
             q1 == IF r # <<>> /\ r[1] \in NameQuote THEN 1 ELSE 0
             hasName == n > 0 /\ Len(r) > q1 /\ IsWord(r[q1 + 1])
             q2 == IF Len(r) > q1 + 1 /\ r[q1 + 2] \in NameQuote THEN 1 ELSE 0
         IN  IF hasName
             THEN SubSeq(sql, 1, n) \o Q(newName)
                  \o replaceTableName(SubSeq(r, q1 + 1 + q2 + 1, Len(r)), newName)
             ELSE <<Head(sql)>> \o replaceTableName(Tail(sql), newName)

\* name + "__new"
TempName(name) == CASE name = "p" -> "p__new" [] name = "t" -> "t__new"

generateRecreateSQL(name, a, b) ==
    LET tempName == TempName(name)
        common == commonColumns(a, b)
        cols == JoinComma(common)
        createSQL == replaceTableName(b.SQL, tempName)
    IN  <<ensureSemicolon(createSQL)>>
        \o (IF Len(common) > 0
            THEN << <<"INSERT", " ", "INTO", " ">> \o Q(tempName) \o <<" ", "(">> \o cols
                    \o <<")", " ", "SELECT", " ">> \o cols \o <<" ", "FROM", " ">>
                    \o Q(name) \o <<";">> >>
            ELSE <<>>)
        \o << <<"DROP", " ", "TABLE", " ">> \o Q(name) \o <<";">>,
              <<"ALTER", " ", "TABLE", " ">> \o Q(tempName)
              \o <<" ", "RENAME", " ", "TO", " ">> \o Q(name) \o <<";">> >>

recreateTableChange(name, a, b) ==
    Change(RecreateTable, name, <<"Recreate table", name, "(schema changed)">>,
           generateRecreateSQL(name, a, b), TRUE)

\* a column diff that does not compare the columns the tables share
diffTableColumnsUncompared(a, b) ==
    LET newCols == SelectSeq(b.Columns, LAMBDA col : ~HasColumn(a, col.Name)) IN
    IF \/ \E k \in 1..Len(a.Columns) : ~HasColumn(b, a.Columns[k].Name)
       \/ Len(newCols) = 0 /\ tableDefinitionChanged(a, b)
    THEN <<recreateTableChange(a.Name, a, b)>>
    ELSE [k \in 1..Len(newCols) |->
             Change(AddColumn, a.Name, <<"Add column", newCols[k].Name, "to table", a.Name>>,
                    <<generateAddColumnSQL(a.Name, newCols[k])>>, FALSE)]

diffTableColumns(a, b) ==
    LET newCols == SelectSeq(b.Columns, LAMBDA col : ~HasColumn(a, col.Name)) IN
    IF \/ \E k \in 1..Len(a.Columns) : ~HasColumn(b, a.Columns[k].Name)
       \/ \E k \in 1..Len(b.Columns) :
            /\ HasColumn(a, b.Columns[k].Name)
            /\ columnChanged(GetColumn(a, b.Columns[k].Name), b.Columns[k])
       \/ Len(newCols) = 0 /\ tableDefinitionChanged(a, b)
    THEN <<recreateTableChange(a.Name, a, b)>>
    ELSE [k \in 1..Len(newCols) |->
             Change(AddColumn, a.Name, <<"Add column", newCols[k].Name, "to table", a.Name>>,
                    <<generateAddColumnSQL(a.Name, newCols[k])>>, FALSE)]

\* the changes diffTables returns; ord gives, for each range statement over a
\* map, the order in which it visits the keys
diffTables(f, t, ord) ==
    LET dropK == ord.dropT
        newK == ord.newT
        modK == ord.modT
    IN  Flatten([k \in 1..Len(dropK) |->
            IF dropK[k] \notin DOMAIN t.Tables
            THEN <<Change(DropTable, dropK[k], <<"Drop table", dropK[k]>>,
                          << <<"DROP", " ", "TABLE", " ">> \o Q(dropK[k]) \o <<";">> >>, TRUE)>>
            ELSE <<>>])
        \o Flatten([k \in 1..Len(newK) |->
            IF newK[k] \notin DOMAIN f.Tables
            THEN <<Change(CreateTable, newK[k], <<"Create table", newK[k]>>,
                          <<ensureSemicolon(t.Tables[newK[k]].SQL)>>, FALSE)>>
            ELSE <<>>])
        \o Flatten([k \in 1..Len(modK) |->
            IF modK[k] \in DOMAIN f.Tables
            THEN diffTableColumns(f.Tables[modK[k]], t.Tables[modK[k]])
            ELSE <<>>])

\* the recreatedTables map diffTables fills
recreatedTables(f, t) ==
    {name \in DOMAIN t.Tables \cap DOMAIN f.Tables :
        LET cs == diffTableColumns(f.Tables[name], t.Tables[name])
        IN  \E k \in 1..Len(cs) : cs[k].Type = RecreateTable}

\* diffIndexes and diffTriggers: the same code over Indexes resp. Triggers
\* a diff of indexes or triggers that compares the texts as they are written
diffOwnedRaw(fm, tm, recreated, dropK, newK, dropType, createType, kind, noun) ==
    LET create(n) == Change(createType, n, <<"Create", noun, n>>,
                            <<ensureSemicolon(tm[n].SQL)>>, FALSE)
        dropSQL(n) == << <<"DROP", " ", kind, " ", "IF", " ", "EXISTS", " ">> \o Q(n) \o <<";">> >>
    IN  Flatten([k \in 1..Len(dropK) |->
            IF fm[dropK[k]].Table \in recreated THEN <<>>
            ELSE IF dropK[k] \notin DOMAIN tm
            THEN <<Change(dropType, dropK[k], <<"Drop", noun, dropK[k]>>, dropSQL(dropK[k]), FALSE)>>
            ELSE <<>>])
        \o Flatten([k \in 1..Len(newK) |->
            LET n == newK[k] IN
            IF tm[n].Table \in recreated THEN <<create(n)>>
            ELSE IF n \notin DOMAIN fm THEN <<create(n)>>
            ELSE IF fm[n].SQL # tm[n].SQL
            THEN <<Change(dropType, n, <<"Drop", noun, n, "(will recreate)">>, dropSQL(n), FALSE),
                   create(n)>>
            ELSE <<>>])

diffOwned(fm, tm, recreated, dropK, newK, dropType, createType, kind, noun) ==
    LET create(n) == Change(createType, n, <<"Create", noun, n>>,
                            <<ensureSemicolon(tm[n].SQL)>>, FALSE)
        dropSQL(n) == << <<"DROP", " ", kind, " ", "IF", " ", "EXISTS", " ">> \o Q(n) \o <<";">> >>
    IN  Flatten([k \in 1..Len(dropK) |->
            IF fm[dropK[k]].Table \in recreated THEN <<>>
            ELSE IF dropK[k] \notin DOMAIN tm
            THEN <<Change(dropType, dropK[k], <<"Drop", noun, dropK[k]>>, dropSQL(dropK[k]), FALSE)>>
            ELSE <<>>])
        \o Flatten([k \in 1..Len(newK) |->
            LET n == newK[k] IN
            IF tm[n].Table \in recreated THEN <<create(n)>>
            ELSE IF n \notin DOMAIN fm THEN <<create(n)>>
            ELSE IF normalizeSQL(fm[n].SQL) # normalizeSQL(tm[n].SQL)
            THEN <<Change(dropType, n, <<"Drop", noun, n, "(will recreate)">>, dropSQL(n), FALSE),
                   create(n)>>
            ELSE <<>>])

\* diffIndexes without the recreated tables
diffIndexesNoCascade(f, t, recreated, ord) ==
    diffOwned(f.Indexes, t.Indexes, {}, ord.dropI,
              ord.newI, DropIndex, CreateIndex, "INDEX", "index")

\* diffIndexes taking a dropped table for a recreated one
diffIndexesDropCascade(f, t, recreated, ord) ==
    diffOwned(f.Indexes, t.Indexes, recreated \cup (DOMAIN f.Tables \ DOMAIN t.Tables),
              ord.dropI, ord.newI, DropIndex, CreateIndex, "INDEX", "index")

diffIndexes(f, t, recreated, ord) ==
    diffOwned(f.Indexes, t.Indexes, recreated, ord.dropI,
              ord.newI, DropIndex, CreateIndex, "INDEX", "index")

diffTriggers(f, t, recreated, ord) ==
    diffOwned(f.Triggers, t.Triggers, recreated, ord.dropG,
              ord.newG, DropTrigger, CreateTrigger, "TRIGGER", "trigger")

diffViews(f, t, ord) ==
    LET dropK == ord.dropV
        newK == ord.newV
        create(n) == Change(CreateView, n, <<"Create view", n>>,
                            <<ensureSemicolon(t.Views[n].SQL)>>, FALSE)
        dropSQL(n) == << <<"DROP", " ", "VIEW", " ", "IF", " ", "EXISTS", " ">> \o Q(n) \o <<";">> >>
    IN  Flatten([k \in 1..Len(dropK) |->
            IF dropK[k] \notin DOMAIN t.Views
            THEN <<Change(DropView, dropK[k], <<"Drop view", dropK[k]>>, dropSQL(dropK[k]), FALSE)>>
            ELSE <<>>])
        \o Flatten([k \in 1..Len(newK) |->
            LET n == newK[k] IN
            IF n \notin DOMAIN f.Views THEN <<create(n)>>
            ELSE IF normalizeSQL(f.Views[n].SQL) # normalizeSQL(t.Views[n].SQL)
            THEN <<Change(DropView, n, <<"Drop view", n, "(will recreate)">>, dropSQL(n), FALSE),
                   create(n)>>
            ELSE <<>>])

priority(type) ==
    CASE type = DropTrigger -> 1
      [] type = DropView -> 2
      [] type = DropIndex -> 3
      [] type = DropTable -> 4
      [] type = RecreateTable -> 5
      [] type = CreateTable -> 6
      [] type = AddColumn -> 7
      [] type = CreateIndex -> 8
      [] type = CreateView -> 9
      [] type = CreateTrigger -> 10

\* a comparison by priority alone
compareChangesByPriority(a, b) == CompareInt(priority(a.Type), priority(b.Type))

\* the comparison function sortChanges passes to slices.SortStableFunc
compareChanges(a, b) ==
    LET pa == priority(a.Type)
        pb == priority(b.Type)
    IN  IF pa # pb THEN CompareInt(pa, pb) ELSE CompareString(a.Object, b.Object)

\* x put into the sorted s before the elements that compare equal
RECURSIVE InsertUnstable(_, _)
InsertUnstable(s, x) ==
    IF s = <<>> THEN <<x>>
    ELSE IF compareChanges(s[Len(s)], x) < 0 THEN Append(s, x)
    ELSE Append(InsertUnstable(SubSeq(s, 1, Len(s) - 1), x), s[Len(s)])

\* x put into the sorted s behind every element that does not compare greater
RECURSIVE InsertStable(_, _)
InsertStable(s, x) ==
    IF s = <<>> THEN <<x>>
    ELSE IF compareChanges(s[Len(s)], x) <= 0 THEN Append(s, x)
    ELSE Append(InsertStable(SubSeq(s, 1, Len(s) - 1), x), s[Len(s)])

\* the changes left in the order the diff functions appended them
sortChangesNone(cs) == cs

\* slices.SortStableFunc(changes, compareChanges)
RECURSIVE sortChanges(_)
sortChanges(cs) ==
    IF cs = <<>> THEN <<>>
    ELSE InsertStable(sortChanges(SubSeq(cs, 1, Len(cs) - 1)), cs[Len(cs)])

Diff(f, t, ord) ==
    LET recreated == recreatedTables(f, t) IN
    sortChanges(diffTables(f, t, ord) \o diffIndexes(f, t, recreated, ord)
                \o diffViews(f, t, ord) \o diffTriggers(f, t, recreated, ord))

\* only the first change of the plan is looked at
HasDestructiveFirst(cs) == cs # <<>> /\ cs[1].Destructive

HasDestructive(cs) == \E k \in 1..Len(cs) : cs[k].Destructive

----------------------------------------------------------------------------
(* Schema texts the snapshots are built from *)

\* the columns the tables are built from
Col ==
    [id |-> Column("id", "INTEGER", FALSE, NoDefault, 1),
     a |-> Column("a", "TEXT", FALSE, NoDefault, 0),
     aInt |-> Column("a", "INTEGER", FALSE, NoDefault, 0),
     b |-> Column("b", "TEXT", FALSE, NoDefault, 0),
     bNotNull |-> Column("b", "TEXT", TRUE, NoDefault, 0),
     c |-> Column("c", "INTEGER", TRUE, <<<<"0">>>>, 0),
     n |-> Column("n", "INTEGER", TRUE, NoDefault, 0)]

\* the column sequences, table constraints and quoting styles of the tables
Layouts ==
    << [cols |-> <<Col.id, Col.a>>, unique |-> FALSE, quoted |-> FALSE],
       [cols |-> <<Col.id, Col.a, Col.bNotNull>>, unique |-> FALSE, quoted |-> FALSE],
       [cols |-> <<Col.id>>, unique |-> FALSE, quoted |-> FALSE],
       [cols |-> <<Col.id, Col.a>>, unique |-> TRUE, quoted |-> FALSE],
       [cols |-> <<Col.id, Col.a>>, unique |-> FALSE, quoted |-> TRUE],
       [cols |-> <<Col.id, Col.b, Col.a>>, unique |-> FALSE, quoted |-> FALSE],
       [cols |-> <<Col.id, Col.aInt>>, unique |-> FALSE, quoted |-> FALSE],
       [cols |-> <<Col.id, Col.a, Col.b, Col.c>>, unique |-> FALSE, quoted |-> FALSE],
       [cols |-> <<Col.id, Col.a, Col.b>>, unique |-> TRUE, quoted |-> FALSE],
       [cols |-> <<Col.b, Col.c>>, unique |-> FALSE, quoted |-> FALSE],
       [cols |-> <<Col.id, Col.a, Col.n>>, unique |-> FALSE, quoted |-> FALSE] >>

\* how many of the layouts the planner is run on
MaxLayout == 8
\* how many of the layouts the applier is run on
MaxApplyLayout == 3

Ident(name, quoted) == IF quoted THEN Q(name) ELSE <<name>>

\* the text of one column definition
ColumnText(col, quoted) ==
    Ident(col.Name, quoted)
    \o (IF col.Type # "" THEN <<" ", col.Type>> ELSE <<>>)
    \o (IF col.PrimaryKey > 0 THEN <<" ", "PRIMARY", " ", "KEY">> ELSE <<>>)
    \o (IF col.NotNull THEN <<" ", "NOT", " ", "NULL">> ELSE <<>>)
    \o (IF col.Default # NoDefault THEN <<" ", "DEFAULT", " ">> \o col.Default[1] ELSE <<>>)

RECURSIVE ColumnList(_, _, _)
ColumnList(cols, quoted, sep) ==
    IF cols = <<>> THEN <<>>
    ELSE IF Len(cols) = 1 THEN ColumnText(cols[1], quoted)
    ELSE ColumnText(cols[1], quoted) \o sep \o ColumnList(Tail(cols), quoted, sep)

\* the CREATE TABLE text of a layout: on one line, or with quoted identifiers
\* and one column per line
TableText(name, l) ==
    LET sep == IF l.quoted THEN <<",", "\n", " ">> ELSE <<",", " ">> IN
    <<"CREATE", " ", "TABLE", " ">> \o Ident(name, l.quoted) \o <<" ", "(">>
    \o (IF l.quoted THEN <<"\n", " ">> ELSE <<>>)
    \o ColumnList(l.cols, l.quoted, sep)
    \o (IF l.unique THEN sep \o <<"UNIQUE", "(", "a", ")">> ELSE <<>>)
    \o (IF l.quoted THEN <<"\n">> ELSE <<>>)
    \o <<")">>

\* the CREATE INDEX texts: "A" plain, "F" the same index formatted differently,
\* "U" a unique index
IndexText(name, table, variant) ==
    <<"CREATE", " ">> \o (IF variant = "U" THEN <<"UNIQUE", " ">> ELSE <<>>)
    \o <<"INDEX", " ", name, " ", "ON", " ", table>>
    \o (IF variant = "F" THEN <<" ", "(", "id", ")", "\n">> ELSE <<"(", "id", ")">>)

\* the CREATE TRIGGER texts: "A" after insert, "B" after delete
TriggerText(name, table, variant) ==
    <<"CREATE", " ", "TRIGGER", " ", name, " ", "AFTER", " ",
      IF variant = "B" THEN "DELETE" ELSE "INSERT", " ", "ON", " ", table, " ",
      "BEGIN", " ", "SELECT", " ", "1", ";", " ", "END">>

\* the CREATE VIEW texts: "A" selects 1, "B" selects 2
ViewText(name, variant) ==
    <<"CREATE", " ", "VIEW", " ", name, " ", "AS", " ", "SELECT", " ",
      IF variant = "B" THEN "2" ELSE "1">>

TableOf(name, k) ==
    LET text == TableText(name, Layouts[k]) IN Table(name, TableInfo(text), text)

\* the snapshots over tables p (layouts kp) and t (layouts kt) and the dependent
\* objects i, g and v in the given texts: a table map holds the table or not, in one of
\* the layouts; a dependent object exists or not, on a table of the snapshot
Snapshots(kp, kt, iv, gv, vv) ==
    LET TableOpts(name, ks) == {EmptyMap} \cup {(name :> TableOf(name, k)) : k \in ks}
        IndexOpts(tables) ==
            {EmptyMap} \cup
            {("i" :> Owned("i", n, IndexText("i", n, x))) :
                <<n, x>> \in {y \in (DOMAIN tables) \X iv :
                                /\ HasColumn(tables[y[1]], "id")
                                /\ (y[1] = "p" \/ y[2] = "A")}}
        TriggerOpts(tables) ==
            {EmptyMap} \cup
            {("g" :> Owned("g", n, TriggerText("g", n, x))) :
                <<n, x>> \in {y \in (DOMAIN tables) \X gv : y[1] = "p" \/ y[2] = "A"}}
        ViewOpts == {EmptyMap} \cup {("v" :> View("v", ViewText("v", x))) : x \in vv}
    IN  UNION {
            {[Tables |-> tb, Indexes |-> d[1], Views |-> d[2], Triggers |-> d[3]] :
                d \in IndexOpts(tb) \X ViewOpts \X TriggerOpts(tb)} :
            tb \in {a @@ b : <<a, b>> \in TableOpts("p", kp) \X TableOpts("t", kt)}}

\* the sets of snapshots the planner is run on; a pair (from, to) is drawn from
\* one of them: every layout of p without dependent objects, then the tables
\* kept, extended, shrunk, dropped and created under an index, under a trigger,
\* beside a view, and under all three
PlannerUniverses ==
    { Snapshots((1..MaxLayout) \cap DOMAIN Layouts, {1, 3}, {}, {}, {}),
      Snapshots({1, 3}, {1, 3}, {"A", "F", "U"}, {}, {}),
      Snapshots({1, 3}, {1, 3}, {}, {"A", "B"}, {}),
      Snapshots({1}, {}, {}, {}, {"A", "B"}),
      Snapshots({1, 3}, {}, {"A"}, {"A"}, {"A"}),
      Snapshots({1, 9, 10, Len(Layouts)}, {}, {}, {}, {}) }

Perms(S) ==
    {s \in [1..Cardinality(S) -> S] : \A a, b \in 1..Cardinality(S) : a # b => s[a] # s[b]}

\* the orders in which the range statements of the planner can visit the maps
\* of f and t: one order of the keys for each statement
Orders(f, t) ==
    [dropT : Perms(DOMAIN f.Tables), newT : Perms(DOMAIN t.Tables),
     modT : Perms(DOMAIN t.Tables),
     dropI : Perms(DOMAIN f.Indexes), newI : Perms(DOMAIN t.Indexes),
     dropV : Perms(DOMAIN f.Views), newV : Perms(DOMAIN t.Views),
     dropG : Perms(DOMAIN f.Triggers), newG : Perms(DOMAIN t.Triggers)]

----------------------------------------------------------------------------
(* The database: the rows of sqlite_master.  A statement is executed by    *)
(* what SQLite reads in its text.                                          *)

Row(type, name, tbl, sql, null) ==
    [type |-> type, name |-> name, tbl_name |-> tbl, sql |-> sql, sqlNull |-> null]

\* the name of the automatic index of a table with a UNIQUE constraint
AutoIndexName(table) ==
    CASE table = "p" -> "sqlite_autoindex_p_1"
      [] table = "t" -> "sqlite_autoindex_t_1"
      [] table = "p__new" -> "sqlite_autoindex_p__new_1"
      [] table = "t__new" -> "sqlite_autoindex_t__new_1"

\* name LIKE 'sqlite_%'
IsInternalName(name) ==
    name \in {AutoIndexName(n) : n \in {"p", "t", "p__new", "t__new"}}

Exists(master, types, name) == \E r \in master : r.type \in types /\ r.name = name

TheRow(master, type, name) == CHOOSE r \in master : r.type = type /\ r.name = name

\* the statement as SQLite stores it: without the terminating semicolon
StoredSQL(text) == TrimSpace(TrimSuffix(TrimSpace(text), ";"))

\* position in a CREATE TABLE text where ADD COLUMN puts the new definition:
\* the comma that starts the table constraints, or the closing parenthesis
AddColOffset(text) ==
    LET cons == {k \in 1..Len(text) :
                    /\ text[k] = ","
                    /\ LET r == TrimLeft(SubSeq(text, k + 1, Len(text)))
                       IN  r # <<>> /\ Kw(r[1], "unique")}
    IN  IF cons # {} THEN CHOOSE k \in cons : \A m \in cons : k <= m
        ELSE LastPos(text, ")")

\* the text of a table after ALTER TABLE ... RENAME TO: the name token (with
\* its quotes) becomes the quoted new name
RenamedSQL(text, old, new) ==
    LET k == FirstPos(text, old)
        lo == IF k > 1 /\ text[k - 1] \in IdentQuote THEN k - 1 ELSE k
        hi == IF k < Len(text) /\ text[k + 1] \in IdentQuote THEN k + 1 ELSE k
    IN  SubSeq(text, 1, lo - 1) \o Q(new) \o SubSeq(text, hi + 1, Len(text))

Failed(master) == [ok |-> FALSE, master |-> master]
Done(master) == [ok |-> TRUE, master |-> master]

ExecCreateTable(master, text, ts) ==
    LET name == IF Kw(ts[3], "if") THEN ts[6] ELSE ts[3] IN
    IF Exists(master, {"table", "view", "index"}, name) THEN Failed(master)
    ELSE Done(master \cup {Row("table", name, name, StoredSQL(text), FALSE)}
              \cup (IF HasUniqueConstraint(text)
                    THEN {Row("index", AutoIndexName(name), name, <<>>, TRUE)}
                    ELSE {}))

ExecCreateIndex(master, text, ts) ==
    LET k == IF Kw(ts[2], "unique") THEN 4 ELSE 3
        name == ts[k]
        table == ts[k + 2]
        cols == SelectSeq(SubSeq(ts, FirstPos(ts, "(") + 1, LastPos(ts, ")") - 1),
                          LAMBDA a : a # ",")
    IN  IF \/ Exists(master, {"table", "view", "index"}, name)
           \/ ~Exists(master, {"table"}, table)
        THEN Failed(master)
        ELSE IF \E c \in 1..Len(cols) :
                    \A n \in 1..Len(TableInfo(TheRow(master, "table", table).sql)) :
                        TableInfo(TheRow(master, "table", table).sql)[n].Name # cols[c]
        THEN Failed(master)
        ELSE Done(master \cup {Row("index", name, table, StoredSQL(text), FALSE)})

ExecCreateView(master, text, ts) ==
    IF Exists(master, {"table", "view", "index"}, ts[3]) THEN Failed(master)
    ELSE Done(master \cup {Row("view", ts[3], ts[3], StoredSQL(text), FALSE)})

ExecCreateTrigger(master, text, ts) ==
    LET on == CHOOSE k \in 1..Len(ts) : Kw(ts[k], "on") /\ \A m \in 1..(k - 1) : ~Kw(ts[m], "on")
        table == ts[on + 1]
    IN  IF Exists(master, {"trigger"}, ts[3]) \/ ~Exists(master, {"table"}, table)
        THEN Failed(master)
        ELSE Done(master \cup {Row("trigger", ts[3], table, StoredSQL(text), FALSE)})

\* DROP TABLE: the table goes with its indexes and triggers
ExecDropTable(master, ts) ==
    IF ~Exists(master, {"table"}, ts[3]) THEN Failed(master)
    ELSE Done({r \in master : ~(r.type \in {"table", "index", "trigger"} /\ r.tbl_name = ts[3])})

\* DROP INDEX | VIEW | TRIGGER IF EXISTS
ExecDropIfExists(master, ts) ==
    Done({r \in master : ~(r.type = LowerWord(ts[2]) /\ r.name = ts[5])})

ExecAddColumn(master, text, ts) ==
    LET table == ts[3]
        item == SubSeq(ts, 6, Len(ts))
        col == ParseColumn(item, 1)
        k == FirstPos(text, "COLUMN")
        def == TrimSpace(SubSeq(StoredSQL(text), k + 1, Len(StoredSQL(text))))
    IN  IF ~Exists(master, {"table"}, table) THEN Failed(master)
        ELSE LET r == TheRow(master, "table", table)
                 off == AddColOffset(r.sql)
                 has == \E n \in 1..Len(TableInfo(r.sql)) : TableInfo(r.sql)[n].Name = col.Name
             IN  IF has \/ col.PrimaryKey > 0 \/ (col.NotNull /\ col.Default = NoDefault)
                 THEN Failed(master)
                 ELSE Done((master \ {r}) \cup
                           {Row("table", table, table,
                                SubSeq(r.sql, 1, off - 1) \o <<",", " ">> \o def
                                \o SubSeq(r.sql, off, Len(r.sql)), FALSE)})

ExecRename(master, ts) ==
    LET old == ts[3]
        new == ts[6]
    IN  IF ~Exists(master, {"table"}, old) \/ Exists(master, {"table", "view", "index"}, new)
        THEN Failed(master)
        ELSE Done({IF r.tbl_name # old THEN r
                   ELSE IF r.type = "table"
                        THEN Row("table", new, new, RenamedSQL(r.sql, old, new), FALSE)
                   ELSE IF r.sqlNull THEN Row("index", AutoIndexName(new), new, <<>>, TRUE)
                   ELSE [r EXCEPT !.tbl_name = new] : r \in master})

\* INSERT INTO x (cols) SELECT cols FROM y: the schema stays as it is
ExecInsert(master, ts) ==
    LET into == ts[3]
        src == ts[Len(ts)]
        cols == SelectSeq(SubSeq(ts, FirstPos(ts, "(") + 1, FirstPos(ts, ")") - 1),
                          LAMBDA a : a # ",")
        known(tb, c) == \E n \in 1..Len(TableInfo(TheRow(master, "table", tb).sql)) :
                            TableInfo(TheRow(master, "table", tb).sql)[n].Name = c
    IN  IF ~Exists(master, {"table"}, into) \/ ~Exists(master, {"table"}, src)
        THEN Failed(master)
        ELSE IF \E c \in 1..Len(cols) : ~known(into, cols[c]) \/ ~known(src, cols[c])
        THEN Failed(master)
        ELSE Done(master)

\* tx.Exec(stmt) on the schema: whether SQLite accepts the statement and the
\* rows of sqlite_master after it
Exec(master, text) ==
    LET ts == Tokens(StoredSQL(text)) IN
    IF Len(ts) < 3 THEN Failed(master)
    ELSE IF Kw(ts[1], "create") /\ Kw(ts[2], "table") THEN ExecCreateTable(master, text, ts)
    ELSE IF Kw(ts[1], "create") /\ (Kw(ts[2], "index") \/ Kw(ts[2], "unique"))
    THEN ExecCreateIndex(master, text, ts)
    ELSE IF Kw(ts[1], "create") /\ Kw(ts[2], "view") THEN ExecCreateView(master, text, ts)
    ELSE IF Kw(ts[1], "create") /\ Kw(ts[2], "trigger") THEN ExecCreateTrigger(master, text, ts)
    ELSE IF Kw(ts[1], "drop") /\ Kw(ts[2], "table") THEN ExecDropTable(master, ts)
    ELSE IF Kw(ts[1], "drop") THEN ExecDropIfExists(master, ts)
    ELSE IF Kw(ts[1], "alter") /\ Kw(ts[4], "add") THEN ExecAddColumn(master, text, ts)
    ELSE IF Kw(ts[1], "alter") /\ Kw(ts[4], "rename") THEN ExecRename(master, ts)
    ELSE IF Kw(ts[1], "insert") THEN ExecInsert(master, ts)
    ELSE Failed(master)

----------------------------------------------------------------------------
(* Schema extraction: pkg/parser *)

extractTables(master) ==
    LET rows == {r \in master : r.type = "table" /\ ~IsInternalName(r.name)} IN
    [n \in {r.name : r \in rows} |->
        LET r == TheRow(master, "table", n) IN Table(r.name, TableInfo(r.sql), r.sql)]

extractIndexes(master) ==
    LET rows == {r \in master : r.type = "index" /\ ~r.sqlNull /\ ~IsInternalName(r.name)} IN
    [n \in {r.name : r \in rows} |->
        LET r == TheRow(master, "index", n) IN Owned(r.name, r.tbl_name, r.sql)]

extractViews(master) ==
    [n \in {r.name : r \in {x \in master : x.type = "view"}} |->
        View(n, TheRow(master, "view", n).sql)]

extractTriggers(master) ==
    [n \in {r.name : r \in {x \in master : x.type = "trigger"}} |->
        LET r == TheRow(master, "trigger", n) IN Owned(r.name, r.tbl_name, r.sql)]

extractSchema(master) ==
    [Tables |-> extractTables(master), Indexes |-> extractIndexes(master),
     Views |-> extractViews(master), Triggers |-> extractTriggers(master)]

\* the rows of a database whose objects were created from the texts of a snapshot
MasterOf(s) ==
    {Row("table", n, n, s.Tables[n].SQL, FALSE) : n \in DOMAIN s.Tables}
    \cup {Row("index", AutoIndexName(n), n, <<>>, TRUE) :
            n \in {m \in DOMAIN s.Tables : HasUniqueConstraint(s.Tables[m].SQL)}}
    \cup {Row("index", n, s.Indexes[n].Table, s.Indexes[n].SQL, FALSE) : n \in DOMAIN s.Indexes}
    \cup {Row("view", n, n, s.Views[n].SQL, FALSE) : n \in DOMAIN s.Views}
    \cup {Row("trigger", n, s.Triggers[n].Table, s.Triggers[n].SQL, FALSE) :
            n \in DOMAIN s.Triggers}

----------------------------------------------------------------------------
(* The applier: pkg/diff/apply.go *)

\* the snapshots the applier is run on
ApplySnapshots ==
    {s \in Snapshots((1..MaxApplyLayout) \cap DOMAIN Layouts, {1}, {"A"}, {}, {}) :
        \A n \in DOMAIN s.Indexes : s.Indexes[n].Table = "p"}

ApplyOptions == [DryRun : BOOLEAN, SkipDestructive : BOOLEAN, BackupPath : {"", "db.backup"}]

Running == "running"
Nil == "nil"
NoFile == [exists |-> FALSE, rows |-> {}]
\* a file that is at BackupPath before Apply is called
OldFile == [exists |-> TRUE, rows |-> {Row("table", "old", "old", <<"old">>, FALSE)}]

\* the file VACUUM INTO writes from the rows of the database
File(rows) == [exists |-> TRUE, rows |-> rows]
NoTx == [open |-> FALSE, master |-> {}]

\* the errors Apply returns, by the step that fails
Err ==
    [compare |-> "compare", backup |-> "create backup", begin |-> "begin transaction",
     disableFK |-> "disable foreign keys", statement |-> "statement",
     enableFK |-> "enable foreign keys", check |-> "foreign key check",
     violations |-> "migration would create foreign key violations", commit |-> "commit"]

\* a filter that keeps every change
FilterNothing(cs, skip) == cs

\* the changes Apply keeps under SkipDestructive
FilterDestructive(cs, skip) ==
    IF skip THEN SelectSeq(cs, LAMBDA c : ~c.Destructive) ELSE cs

\* PRAGMA foreign_keys = v: a no-op inside a transaction
PragmaFK(cur, inTx, v) == IF inTx THEN cur ELSE v

\* a rollback that keeps what the transaction has done
RolledBackKeeps(d, t) == IF t.open THEN t.master ELSE d

\* the committed rows after tx.Commit() resp. tx.Rollback()
Committed(d, t) == t.master
RolledBack(d, t) == d

\* whether the statement loop skips a statement
Skipped(stmt) == TrimSpace(stmt) = <<>> \/ HasCommentPrefix(TrimSpace(stmt))

\* a check that lets every result pass
HasViolationsNever(rows) == FALSE

\* whether rows.Next() on PRAGMA foreign_key_check stops the migration
HasViolations(rows) == rows

Cmd(c, text, ok) == [cmd |-> c, text |-> text, ok |-> ok]

\* return err after db.Begin(): the deferred tx.Rollback() runs
ReturnError(err) ==
    /\ result' = err
    /\ pc' = "done"
    /\ db' = RolledBack(db, tx)
    /\ tx' = NoTx

Init ==
    /\ \E s \in ApplySnapshots : db = MasterOf(s)
    /\ to \in ApplySnapshots
    /\ opts \in ApplyOptions
    /\ fk \in BOOLEAN
    /\ db0 = db
    /\ from = NewDatabase
    /\ plan = <<>>
    /\ changes = <<>>
    /\ pc = "start"
    /\ tx = NoTx
    /\ ci = 1
    /\ si = 1
    /\ log = <<>>
    /\ backup \in (IF opts.BackupPath = "" THEN {NoFile} ELSE {NoFile, OldFile})
    /\ result = Running
    /\ baseFS = <<>>
    /\ disk = <<>>
    /\ args = <<>>
    /\ ret = <<>>

\* an early return for the empty plan only
ReturnsEarlyOnEmpty(o, cs) == Len(cs) = 0

\* if opts.DryRun || len(changes) == 0 { return nil }
ReturnsEarly(o, cs) == o.DryRun \/ Len(cs) = 0

\* a plan that always goes on to the transaction
AfterPlanNoBackup(o) == "begin"

\* where Apply goes on with a plan to execute
AfterPlan(o) == IF o.BackupPath # "" THEN "backup" ELSE "begin"

\* a failure of Compare that Apply notices only after the backup is written
CompareFailsAfterBackup ==
    /\ pc = "start"
    /\ result' = Err.compare
    /\ pc' = "done"
    /\ log' = Append(log, Cmd("VACUUM INTO", <<>>, TRUE))
    /\ backup' = File(db)
    /\ UNCHANGED <<baseFS, disk, args, ret, from, to, plan, changes, opts, db, db0, tx, ci, si, fk>>

\* Compare fails: extracting the database or loading the schema directory
CompareFails ==
    /\ pc = "start"
    /\ result' = Err.compare
    /\ pc' = "done"
    /\ UNCHANGED <<baseFS, disk, args, ret, from, to, plan, changes, opts, db, db0, tx, ci, si, log, fk, backup>>

\* Compare, the dry-run and empty-plan returns, and the SkipDestructive filter
Compare ==
    /\ pc = "start"
    /\ from' = extractSchema(db)
    /\ \E ord \in Orders(from', to) : plan' = Diff(from', to, ord)
    /\ changes' = IF ReturnsEarly(opts, plan') THEN plan'
                  ELSE FilterDestructive(plan', opts.SkipDestructive)
    /\ IF ReturnsEarly(opts, plan') \/ Len(changes') = 0
       THEN result' = Nil /\ pc' = "done"
       ELSE result' = result /\ pc' = AfterPlan(opts)
    /\ UNCHANGED <<baseFS, disk, args, ret, to, opts, db, db0, tx, ci, si, log, fk, backup>>

\* os.Remove(BackupPath) and VACUUM INTO
Backup ==
    /\ pc = "backup"
    /\ \E ok \in BOOLEAN :
        /\ log' = Append(log, Cmd("VACUUM INTO", <<>>, ok))
        /\ IF ok THEN backup' = File(db) /\ pc' = "begin" /\ result' = result
           ELSE backup' \in {NoFile, backup} /\ pc' = "done" /\ result' = Err.backup
    /\ UNCHANGED <<baseFS, disk, args, ret, from, to, plan, changes, opts, db, db0, tx, ci, si, fk>>

\* db.Begin()
Begin ==
    /\ pc = "begin"
    /\ \E ok \in BOOLEAN :
        /\ log' = Append(log, Cmd("BEGIN", <<>>, ok))
        /\ IF ok THEN tx' = [open |-> TRUE, master |-> db] /\ pc' = "fkoff" /\ result' = result
           ELSE tx' = tx /\ pc' = "done" /\ result' = Err.begin
    /\ UNCHANGED <<baseFS, disk, args, ret, from, to, plan, changes, opts, db, db0, ci, si, fk, backup>>

\* tx.Exec("PRAGMA foreign_keys = OFF")
DisableFK ==
    /\ pc = "fkoff"
    /\ \E ok \in BOOLEAN :
        /\ log' = Append(log, Cmd("PRAGMA foreign_keys = OFF", <<>>, ok))
        /\ IF ok
           THEN /\ fk' = PragmaFK(fk, tx.open, FALSE)
                /\ pc' = "exec"
                /\ UNCHANGED <<baseFS, disk, args, ret, db, tx, result>>
           ELSE fk' = fk /\ ReturnError(Err.disableFK)
    /\ UNCHANGED <<baseFS, disk, args, ret, from, to, plan, changes, opts, db0, ci, si, backup>>

\* the position after statement si of change ci
Advance ==
    IF si < Len(changes[ci].SQL) THEN ci' = ci /\ si' = si + 1
    ELSE ci' = ci + 1 /\ si' = 1

\* one turn of the statement loop
ExecStatement ==
    /\ pc = "exec"
    /\ ci <= Len(changes)
    /\ LET stmt == TrimSpace(changes[ci].SQL[si]) IN
       IF Skipped(stmt)
       THEN Advance /\ UNCHANGED <<baseFS, disk, args, ret, db, tx, log, result, pc>>
       ELSE \E env \in BOOLEAN :
            LET r == Exec(tx.master, stmt) IN
            /\ log' = Append(log, Cmd("EXEC", stmt, env /\ r.ok))
            /\ IF env /\ r.ok
               THEN /\ tx' = [tx EXCEPT !.master = r.master]
                    /\ Advance
                    /\ UNCHANGED <<baseFS, disk, args, ret, db, result, pc>>
               ELSE ReturnError(Err.statement) /\ UNCHANGED <<baseFS, disk, args, ret, ci, si>>
    /\ UNCHANGED <<baseFS, disk, args, ret, from, to, plan, changes, opts, db0, fk, backup>>

\* tx.Exec("PRAGMA foreign_keys = ON"), once the loop is through
EnableFK ==
    /\ pc = "exec"
    /\ ci > Len(changes)
    /\ \E ok \in BOOLEAN :
        /\ log' = Append(log, Cmd("PRAGMA foreign_keys = ON", <<>>, ok))
        /\ IF ok
           THEN /\ fk' = PragmaFK(fk, tx.open, TRUE)
                /\ pc' = "fkcheck"
                /\ UNCHANGED <<baseFS, disk, args, ret, db, tx, result>>
           ELSE fk' = fk /\ ReturnError(Err.enableFK)
    /\ UNCHANGED <<baseFS, disk, args, ret, from, to, plan, changes, opts, db0, ci, si, backup>>

\* tx.Query("PRAGMA foreign_key_check") and rows.Next()
CheckFK ==
    /\ pc = "fkcheck"
    /\ \E ok \in BOOLEAN, rows \in BOOLEAN :
        /\ ok \/ ~rows
        /\ log' = Append(log, Cmd("PRAGMA foreign_key_check", IF rows THEN <<"row">> ELSE <<>>, ok))
        /\ IF ~ok THEN ReturnError(Err.check)
           ELSE IF HasViolations(rows) THEN ReturnError(Err.violations)
           ELSE pc' = "commit" /\ UNCHANGED <<baseFS, disk, args, ret, db, tx, result>>
    /\ UNCHANGED <<baseFS, disk, args, ret, from, to, plan, changes, opts, db0, ci, si, fk, backup>>

\* tx.Commit()
Commit ==
    /\ pc = "commit"
    /\ \E ok \in BOOLEAN :
        /\ log' = Append(log, Cmd("COMMIT", <<>>, ok))
        /\ IF ok
           THEN /\ db' = Committed(db, tx)
                /\ tx' = NoTx
                /\ result' = Nil
                /\ pc' = "done"
           ELSE ReturnError(Err.commit)
    /\ UNCHANGED <<baseFS, disk, args, ret, from, to, plan, changes, opts, db0, ci, si, fk, backup>>

Next ==
    \/ CompareFails
    \/ Compare
    \/ Backup
    \/ Begin
    \/ DisableFK
    \/ ExecStatement
    \/ EnableFK
    \/ CheckFK
    \/ Commit

Spec == Init /\ [][Next]_vars

----------------------------------------------------------------------------
(* The planner alone: Diff on a pair of snapshots *)

InitDiff ==
    /\ \E u \in PlannerUniverses : from \in u /\ to \in u
    /\ plan = <<>>
    /\ changes = <<>>
    /\ pc = "diff"
    /\ opts = [DryRun |-> TRUE, SkipDestructive |-> FALSE, BackupPath |-> ""]
    /\ db = {}
    /\ db0 = {}
    /\ tx = NoTx
    /\ ci = 1
    /\ si = 1
    /\ log = <<>>
    /\ fk = FALSE
    /\ backup = NoFile
    /\ result = Running
    /\ baseFS = <<>>
    /\ disk = <<>>
    /\ args = <<>>
    /\ ret = <<>>

\* changes := Diff(from, to)
DiffStep ==
    /\ pc = "diff"
    /\ \E ord \in Orders(from, to) : plan' = Diff(from, to, ord)
    /\ changes' = plan'
    /\ pc' = "planned"
    /\ UNCHANGED <<baseFS, disk, args, ret, from, to, opts, db, db0, tx, ci, si, log, fk, backup, result>>

NextDiff == DiffStep

SpecDiff == InitDiff /\ [][NextDiff]_vars

----------------------------------------------------------------------------
(* The apply command of the command line: flags in opts, the calls it makes in log *)

\* an answer that only "no" declines
ConfirmedAny(response) == response # "no"

\* response == "yes" || response == "y"
Confirmed(response) == response \in {"yes", "y"}

InitCLI ==
    /\ from \in Snapshots({1, 2, 3}, {}, {}, {}, {})
    /\ to \in Snapshots({1, 2, 3}, {}, {}, {}, {})
    /\ opts \in [DryRun : BOOLEAN, SkipDestructive : BOOLEAN, Backup : BOOLEAN,
                 Force : BOOLEAN, ShowChanges : BOOLEAN]
    /\ plan = <<>>
    /\ changes = <<>>
    /\ pc = "cli"
    /\ db = {}
    /\ db0 = {}
    /\ tx = NoTx
    /\ ci = 1
    /\ si = 1
    /\ log = <<>>
    /\ fk = FALSE
    /\ backup = NoFile
    /\ result = Running
    /\ baseFS = <<>>
    /\ disk = <<>>
    /\ args = <<>>
    /\ ret = <<>>

\* the Action of applyCMD: diff.Compare, the prompt for a destructive plan,
\* the dry-run return and the call of diff.Apply; read is what fmt.Scanln
\* yields (scanned is FALSE when it returns an error), applied whether
\* diff.Apply returns nil
applyCMD ==
    /\ pc = "cli"
    /\ pc' = "done"
    /\ \E ok \in BOOLEAN, ord \in Orders(from, to) :
        /\ plan' = (IF ok THEN Diff(from, to, ord) ELSE <<>>)
        /\ IF ~ok THEN log' = <<>> /\ result' = Err.compare
           ELSE IF Len(plan') = 0 THEN log' = <<>> /\ result' = Nil
           ELSE \E read \in {"yes", "y", "no", "YES"}, scanned \in BOOLEAN, applied \in BOOLEAN :
                LET prompt == HasDestructive(plan') /\ ~opts.Force /\ ~opts.DryRun
                    asked == IF prompt
                             THEN <<Cmd("Scanln", IF scanned THEN read ELSE "", scanned)>>
                             ELSE <<>>
                    call == Cmd("Apply",
                                [DryRun |-> opts.DryRun, SkipDestructive |-> opts.SkipDestructive,
                                 Backup |-> opts.Backup, ShowChanges |-> opts.ShowChanges],
                                applied)
                IN  IF prompt /\ ~scanned THEN log' = asked /\ result' = "unexpected newline"
                    ELSE IF prompt /\ ~Confirmed(read) THEN log' = asked /\ result' = Nil
                    ELSE IF opts.DryRun THEN log' = asked /\ result' = Nil
                    ELSE /\ log' = Append(asked, call)
                         /\ result' = IF applied THEN Nil ELSE "apply changes"
    /\ changes' = plan'
    /\ UNCHANGED <<baseFS, disk, args, ret, from, to, opts, db, db0, tx, ci, si, fk, backup>>

NextCLI == applyCMD

SpecCLI == InitCLI /\ [][NextCLI]_vars

----------------------------------------------------------------------------
(* The functions called on their own: columnChanged and normalizeSQL *)

\* the largest primary-key ordinal of the columns compared
MaxOrdinal == 2

\* the longest SQL text normalized, in atoms
MaxText == 4

\* the columns columnChanged is called on: what PRAGMA table_info can report
ColumnArgs ==
    [Name : {"c"}, Type : {"INTEGER", "integer", "TEXT"}, NotNull : BOOLEAN,
     Default : {NoDefault, <<<<"0">>>>, <<<<" ", "0", " ">>>>, <<<<"NULL">>>>, <<<<"null">>>>},
     PrimaryKey : 0..MaxOrdinal]

\* the SQL texts normalizeSQL is called on: no two words side by side
Texts ==
    {s \in UNION {[1..n -> {"X", " ", ";", "'", "\"", "__str_protect_0__"}] : n \in 0..MaxText} :
        \A k \in 1..(Len(s) - 1) : ~(IsWord(s[k]) /\ IsWord(s[k + 1]))}

InitFn ==
    /\ \/ args \in [fn : {"columnChanged"}, a : ColumnArgs, b : ColumnArgs]
       \/ args \in [fn : {"normalizeSQL"}, sql : Texts, stripQuotes : BOOLEAN]
    /\ ret = <<>>
    /\ pc = "call"
    /\ from = NewDatabase
    /\ to = NewDatabase
    /\ plan = <<>>
    /\ changes = <<>>
    /\ opts = [DryRun |-> TRUE, SkipDestructive |-> FALSE, BackupPath |-> ""]
    /\ db = {}
    /\ db0 = {}
    /\ tx = NoTx
    /\ ci = 1
    /\ si = 1
    /\ log = <<>>
    /\ fk = FALSE
    /\ backup = NoFile
    /\ result = Running
    /\ baseFS = <<>>
    /\ disk = <<>>

\* columnChanged(from, to)
CallColumnChanged ==
    /\ pc = "call"
    /\ args.fn = "columnChanged"
    /\ ret' = columnChanged(args.a, args.b)
    /\ pc' = "returned"
    /\ UNCHANGED <<from, to, plan, changes, opts, db, db0, tx, ci, si, log, fk, backup, result,
                   baseFS, disk, args>>

\* normalizeSQL(sql, stripQuotes)
CallNormalizeSQL ==
    /\ pc = "call"
    /\ args.fn = "normalizeSQL"
    /\ ret' = normalizeSQL2(args.sql, args.stripQuotes)
    /\ pc' = "returned"
    /\ UNCHANGED <<from, to, plan, changes, opts, db, db0, tx, ci, si, log, fk, backup, result,
                   baseFS, disk, args>>

NextFn == CallColumnChanged \/ CallNormalizeSQL

SpecFn == InitFn /\ [][NextFn]_vars

----------------------------------------------------------------------------
(* The loader of schema files: pkg/parser, SetBaseFS and ReadFiles *)

\* the entries a filesystem can hold under the directory schema: regular files, but for
\* d.sql, which is a directory; the statement in x.sql is one SQLite rejects
Entries ==
    [file    |-> {<<"schema", "/", "a", ".", "sql">>, <<"schema", "/", "a", "/", "z", ".", "sql">>,
                  <<"schema", "/", "b", ".", "SQL">>, <<"schema", "/", "c", ".", "txt">>,
                  <<"schema", "/", "x", ".", "sql">>},
     dir     |-> {<<"schema", "/", "d", ".", "sql">>},
     invalid |-> {<<"schema", "/", "x", ".", "sql">>}]

\* the nil fs.FS
NoFS == [name |-> "nil", entries |-> {}]

\* the filesystems called name: the directory schema with some of the entries
FileSystems(name) == [name : {name}, entries : SUBSET (Entries.file \cup Entries.dir)]

\* slices.Sort(files): ascending by the byte values of the paths
RECURSIVE SortStrings(_)
SortStrings(S) ==
    LET bytes == ("schema" :> <<115, 99, 104, 101, 109, 97>>) @@ ("/" :> <<47>>)
                 @@ ("." :> <<46>>) @@ ("a" :> <<97>>) @@ ("b" :> <<98>>) @@ ("c" :> <<99>>)
                 @@ ("d" :> <<100>>) @@ ("x" :> <<120>>) @@ ("z" :> <<122>>)
                 @@ ("sql" :> <<115, 113, 108>>) @@ ("SQL" :> <<83, 81, 76>>)
                 @@ ("txt" :> <<116, 120, 116>>)
        PathBytes(path) == Flatten([k \in 1..Len(path) |-> bytes[path[k]]])
    IN  IF S = {} THEN <<>>
        ELSE LET m == CHOOSE x \in S :
                          \A y \in S : CompareBytes(PathBytes(x), PathBytes(y)) <= 0
             IN  <<m>> \o SortStrings(S \ {m})

\* fromFS(fsys, dir): the walk passes its error on (dir is missing), skips directories
\* and the paths that do not end in .sql in lower case, and the paths found are sorted
fromFS(fsys, dir) ==
    IF dir # "schema" THEN [err |-> "walk", files |-> <<>>]
    ELSE [err |-> "nil",
          files |-> SortStrings({path \in fsys.entries :
                        /\ path \notin Entries.dir
                        /\ SubSeq(ToLower(path), Len(path) - 1, Len(path)) = <<".", "sql">>})]

\* fromDir(dir): the same walk by filepath.WalkDir, on the operating system
fromDir(dir) == fromFS(disk, dir)

\* the loop of ReadFiles over the paths found, run with the files of src: what it
\* returned and the texts handed to db.Exec of the in-memory database, each the
\* content of a path in src
RECURSIVE execFiles(_, _, _)
execFiles(files, src, done) ==
    IF files = <<>> THEN [err |-> "nil", path |-> <<>>, executed |-> done]
    ELSE LET path == Head(files) IN
         IF path \notin src.entries \ Entries.dir
         THEN [err |-> "read", path |-> path, executed |-> done]
         ELSE IF path \in Entries.invalid
         THEN [err |-> "execute", path |-> path,
               executed |-> Append(done, [origin |-> src.name, path |-> path])]
         ELSE execFiles(Tail(files), src, Append(done, [origin |-> src.name, path |-> path]))

\* ReadFiles(dir) with the contents read from src
ReadFilesFrom(dir, src) ==
    LET found == IF baseFS # NoFS THEN fromFS(baseFS, dir) ELSE fromDir(dir) IN
    IF found.err # "nil" THEN [err |-> found.err, path |-> <<>>, executed |-> <<>>]
    ELSE execFiles(found.files, src, <<>>)

InitRead ==
    /\ baseFS = NoFS
    /\ disk \in FileSystems("os")
    /\ args = <<>>
    /\ ret = <<>>
    /\ pc = "call"
    /\ from = NewDatabase
    /\ to = NewDatabase
    /\ plan = <<>>
    /\ changes = <<>>
    /\ opts = [DryRun |-> TRUE, SkipDestructive |-> FALSE, BackupPath |-> ""]
    /\ db = {}
    /\ db0 = {}
    /\ tx = NoTx
    /\ ci = 1
    /\ si = 1
    /\ log = <<>>
    /\ fk = FALSE
    /\ backup = NoFile
    /\ result = Running

\* SetBaseFS(fsys)
SetBaseFS ==
    /\ pc = "call"
    /\ \E fsys \in FileSystems("fsys") \cup {NoFS} : baseFS' = fsys
    /\ UNCHANGED <<from, to, plan, changes, opts, pc, db, db0, tx, ci, si, log, fk, backup,
                   result, disk, args, ret>>

\* ReadFiles(dir): the paths come from the base filesystem when one is set, the
\* contents from os.ReadFile
ReadFiles ==
    /\ pc = "call"
    /\ \E dir \in {"schema", "missing"} :
          /\ args' = [fn |-> "ReadFiles", dir |-> dir]
          /\ ret' = ReadFilesFrom(dir, disk)
    /\ log' = ret'.executed
    /\ pc' = "returned"
    /\ UNCHANGED <<from, to, plan, changes, opts, db, db0, tx, ci, si, fk, backup, result,
                   baseFS, disk>>

NextRead == SetBaseFS \/ ReadFiles

SpecRead == InitRead /\ [][NextRead]_vars

----------------------------------------------------------------------------
(* Properties of the planner, checked under SpecDiff *)

\* the positions of the plan whose change has the given type and object
Positions(cs, type, object) ==
    {k \in 1..Len(cs) : cs[k].Type = type /\ cs[k].Object = object}

\* the tables for which the plan holds a recreate_table
RecreatedIn(cs) == {cs[k].Object : k \in {j \in 1..Len(cs) : cs[j].Type = RecreateTable}}

\* C2: Diff(s, s) is the empty change list for every snapshot s.
C2_NoOp == (pc = "planned" /\ from = to) => plan = <<>>

C2_Witness ==
    /\ pc = "planned"
    /\ from = to
    /\ from.Tables # EmptyMap
    /\ from.Indexes # EmptyMap
    /\ from.Views # EmptyMap
    /\ from.Triggers # EmptyMap

\* the priorities in the order the plan is to follow
PriorityOrder ==
    <<DropTrigger, DropView, DropIndex, DropTable, RecreateTable,
      CreateTable, AddColumn, CreateIndex, CreateView, CreateTrigger>>

Rank(type) == CHOOSE k \in 1..Len(PriorityOrder) : PriorityOrder[k] = type

\* C3: the plan Diff returns is ordered by non-decreasing priority (drop_trigger,
\* drop_view, drop_index, drop_table, recreate_table, create_table, add_column,
\* create_index, create_view, create_trigger, numbered from 1), changes of equal
\* priority by their object name; so every change of priority at most 5
\* precedes every change of priority at least 6.
C3_Ordered ==
    pc = "planned" =>
        \A a, b \in 1..Len(plan) :
            /\ priority(plan[a].Type) = Rank(plan[a].Type)
            /\ a < b =>
                /\ Rank(plan[a].Type) <= Rank(plan[b].Type)
                /\ Rank(plan[a].Type) = Rank(plan[b].Type) =>
                       CompareString(plan[a].Object, plan[b].Object) <= 0
                /\ ~(Rank(plan[a].Type) >= Rank(CreateTable)
                     /\ Rank(plan[b].Type) <= Rank(RecreateTable))

C3_Witness ==
    /\ pc = "planned"
    /\ \E a, b \in 1..Len(plan) :
        /\ a < b
        /\ plan[a].Type = plan[b].Type
        /\ plan[a].Object # plan[b].Object
    /\ \E a, b \in 1..Len(plan) :
        /\ Rank(plan[a].Type) <= Rank(RecreateTable)
        /\ Rank(plan[b].Type) >= Rank(CreateTable)

MidInserted ==
    {T \in DOMAIN from.Tables \cap DOMAIN to.Tables :
        LET a == from.Tables[T].Columns
            b == to.Tables[T].Columns
        IN  \E k \in 1..Len(b) :
                /\ ~HasColumn(from.Tables[T], b[k].Name)
                /\ \A j \in 1..(k - 1) : HasColumn(from.Tables[T], b[j].Name)
                /\ [j \in 1..(k - 1) |-> b[j].Name] # [j \in 1..Len(a) |-> a[j].Name]}

\* C5: for a table of both snapshots to which to adds a column that is not at
\* the end of the column sequence, the plan holds one recreate_table for the
\* table, flagged destructive, and no add_column.
C5_MidInsertRecreates ==
    pc = "planned" =>
        \A T \in MidInserted :
            /\ Cardinality(Positions(plan, RecreateTable, T)) = 1
            /\ \A k \in Positions(plan, RecreateTable, T) : plan[k].Destructive
            /\ Positions(plan, AddColumn, T) = {}

\* from holds nothing but table T and an index on it, to holds nothing
OnlyTableWithIndex(T, n) ==
    /\ DOMAIN from.Tables = {T}
    /\ DOMAIN from.Indexes = {n}
    /\ from.Indexes[n].Table = T
    /\ from.Views = EmptyMap
    /\ from.Triggers = EmptyMap
    /\ to = NewDatabase

\* C6 as stated: when table p is in from and not in to, and so is an index of p,
\* no drop_index is in the plan for the index, and the plan is the one change
\* drop_table of p when nothing else differs.
C6_OneChangeAsStated ==
    pc = "planned" =>
        \A T \in DOMAIN from.Tables \ DOMAIN to.Tables :
            \A n \in DOMAIN from.Indexes \ DOMAIN to.Indexes :
                from.Indexes[n].Table = T =>
                    /\ Positions(plan, DropIndex, n) = {}
                    /\ OnlyTableWithIndex(T, n) =>
                           Len(plan) = 1 /\ Positions(plan, DropTable, T) = {1}

\* C6: when table p is in from and not in to, and so is an index of p, the
\* plan holds a drop_index for the index before the drop_table of p, and it is
\* those two changes when nothing else differs.
C6_DropIndexThenTable ==
    pc = "planned" =>
        \A T \in DOMAIN from.Tables \ DOMAIN to.Tables :
            \A n \in DOMAIN from.Indexes \ DOMAIN to.Indexes :
                from.Indexes[n].Table = T =>
                    /\ \E a \in Positions(plan, DropIndex, n) :
                        /\ ~plan[a].Destructive
                        /\ \E b \in Positions(plan, DropTable, T) : a < b /\ plan[b].Destructive
                    /\ OnlyTableWithIndex(T, n) =>
                           /\ Len(plan) = 2
                           /\ Positions(plan, DropIndex, n) = {1}
                           /\ Positions(plan, DropTable, T) = {2}

C6_Witness ==
    /\ pc = "planned"
    /\ OnlyTableWithIndex("p", "i")
    /\ Len(plan) = 2

----------------------------------------------------------------------------
(* Properties of Apply, checked under Spec *)

\* the entries of the log for the statements of the plan
Issued(l) == SelectSeq(l, LAMBDA e : e.cmd = "EXEC")

TextsOf(es) == [k \in 1..Len(es) |-> es[k].text]

\* the positions of the log at which the command c was issued
CmdAt(l, c) == {k \in 1..Len(l) : l[k].cmd = c}

\* the statements the loop of Apply issues for the changes cs
Statements(cs) ==
    Flatten([k \in 1..Len(cs) |->
        SelectSeq([j \in 1..Len(cs[k].SQL) |-> TrimSpace(cs[k].SQL[j])],
                  LAMBDA stmt : ~Skipped(stmt))])

\* the rows of sqlite_master after the statements, run one after the other
RECURSIVE RunAll(_, _)
RunAll(master, stmts) ==
    IF stmts = <<>> THEN master
    ELSE RunAll(Exec(master, Head(stmts)).master, Tail(stmts))

IsPrefix(a, b) == Len(a) <= Len(b) /\ SubSeq(b, 1, Len(a)) = a

\* C1: when Apply has executed the plan Diff(from, to) against a database of
\* schema from, the snapshot s extracted from the database has Diff(s, to) = [].
C1_Idempotent ==
    (pc = "done" /\ result = Nil /\ ~opts.DryRun /\ ~opts.SkipDestructive) =>
        LET s == extractSchema(db) IN \A ord \in Orders(s, to) : Diff(s, to, ord) = <<>>

\* C7: when a statement of the plan fails, re-enabling foreign keys fails, the
\* foreign-key check reports a row or the commit fails, Apply returns an error
\* and the schema is the one before the call; when Apply returns nil after
\* executing, every statement of every change it executed is committed.
C7_AllOrNothing ==
    /\ (\E k \in 1..Len(log) :
            /\ log[k].cmd \in {"EXEC", "PRAGMA foreign_keys = ON",
                               "PRAGMA foreign_key_check", "COMMIT"}
            /\ ~log[k].ok \/ (log[k].cmd = "PRAGMA foreign_key_check" /\ log[k].text # <<>>))
        => pc = "done" /\ result \notin {Nil, Running} /\ db = db0 /\ ~tx.open
    /\ (pc = "done" /\ result = Nil /\ Issued(log) # <<>>)
        => /\ TextsOf(Issued(log)) = Statements(changes)
           /\ \A k \in 1..Len(Issued(log)) : Issued(log)[k].ok
           /\ db = RunAll(db0, Statements(changes))

\* a statement fails after another one has changed the schema
C7_Witness ==
    /\ pc = "done"
    /\ result = Err.statement
    /\ Len(Issued(log)) >= 2
    /\ RunAll(db0, <<Issued(log)[1].text>>) # db0

\* C8: Apply issues PRAGMA foreign_keys = OFF before it begins the transaction,
\* and enforcement is off for every statement of the plan.
C8_FKOffBeforeBegin ==
    /\ \A k \in CmdAt(log, "BEGIN") :
        \E j \in CmdAt(log, "PRAGMA foreign_keys = OFF") : j < k
    /\ (pc = "exec" /\ Issued(log) # <<>>) => ~fk

\* C9: Apply commits only after every statement of the plan has been executed,
\* PRAGMA foreign_keys = ON has been issued and PRAGMA foreign_key_check has
\* returned no row; when the check returns a row, Apply returns the
\* foreign-key-violation error, does not commit, and the transaction is rolled back.
C9_CheckGatesCommit ==
    /\ \A k \in CmdAt(log, "COMMIT") :
        /\ k > 2
        /\ log[k - 1] = Cmd("PRAGMA foreign_key_check", <<>>, TRUE)
        /\ log[k - 2] = Cmd("PRAGMA foreign_keys = ON", <<>>, TRUE)
        /\ TextsOf(Issued(SubSeq(log, 1, k - 3))) = Statements(changes)
        /\ \A j \in CmdAt(log, "EXEC") : log[j].ok /\ j < k - 2
    /\ \A k \in CmdAt(log, "PRAGMA foreign_key_check") :
        (log[k].ok /\ log[k].text # <<>>) =>
            /\ pc = "done"
            /\ result = Err.violations
            /\ CmdAt(log, "COMMIT") = {}
            /\ db = db0
            /\ ~tx.open

\* the check reports a row after the plan has changed the schema
C9_Witness ==
    /\ pc = "done"
    /\ result = Err.violations
    /\ RunAll(db0, Statements(changes)) # db0
    /\ db = db0

\* C10: with SkipDestructive, Apply executes no statement of a destructive
\* change, executes the other changes in the order of the plan, and executes
\* nothing (no backup, no transaction) and returns nil when every change of
\* the plan is destructive.
C10_SkipDestructive ==
    (opts.SkipDestructive /\ ~opts.DryRun /\ pc # "start" /\ result # Err.compare) =>
        LET kept == SelectSeq(plan, LAMBDA c : ~c.Destructive)
            done == TextsOf(Issued(log))
        IN  /\ IsPrefix(done, Statements(kept))
            /\ (pc = "done" /\ result = Nil) => done = Statements(kept)
            /\ \A k \in 1..Len(done), c \in 1..Len(plan) :
                plan[c].Destructive =>
                    \A j \in 1..Len(plan[c].SQL) : done[k] # TrimSpace(plan[c].SQL[j])
            /\ kept = <<>> =>
                /\ pc = "done"
                /\ result = Nil
                /\ log = <<>>
                /\ backup \in {NoFile, OldFile}
                /\ ~tx.open
                /\ db = db0

\* a plan with destructive and other changes, of which Apply has run the others
C10_Witness ==
    /\ opts.SkipDestructive
    /\ pc = "done"
    /\ result = Nil
    /\ \E c \in 1..Len(plan) : plan[c].Destructive
    /\ Issued(log) # <<>>
    /\ db # db0

\* C11: with a BackupPath and a plan to execute, Apply completes VACUUM INTO
\* before it begins the transaction, so that the backup holds the schema of
\* before the migration; when the backup fails, Apply returns an error without
\* beginning a transaction and without executing a statement of the plan.
C11_BackupFirst ==
    /\ \A k \in CmdAt(log, "BEGIN") :
        opts.BackupPath # "" =>
            /\ k = 2
            /\ log[1] = Cmd("VACUUM INTO", <<>>, TRUE)
            /\ backup = File(db0)
    /\ \A k \in CmdAt(log, "VACUUM INTO") :
        /\ opts.BackupPath # "" /\ changes # <<>> /\ k = 1
        /\ ~log[k].ok =>
            /\ pc = "done"
            /\ result = Err.backup
            /\ log = <<Cmd("VACUUM INTO", <<>>, FALSE)>>
            /\ ~tx.open
            /\ db = db0

\* the migration is committed and the backup holds the schema of before
C11_Witness ==
    /\ pc = "done"
    /\ result = Nil
    /\ opts.BackupPath # ""
    /\ backup = File(db0)
    /\ db # db0

\* C12: with DryRun, or when the plan is empty, Apply returns nil after
\* computing the plan, without creating or removing a backup file, beginning
\* a transaction or executing a statement; the schema is unchanged.
C12_DryRunNoEffect ==
    /\ []((pc # "start" /\ result # Err.compare /\ (opts.DryRun \/ plan = <<>>)) =>
            /\ pc = "done"
            /\ result = Nil
            /\ log = <<>>
            /\ ~tx.open
            /\ db = db0)
    /\ [][(opts.DryRun \/ plan' = <<>>) => backup' = backup]_vars

\* a dry run on a plan that would change the schema, with an old backup file
C12_Witness ==
    /\ pc = "done"
    /\ opts.DryRun
    /\ opts.BackupPath # ""
    /\ backup = OldFile
    /\ HasDestructive(plan)
    /\ result = Nil

\* C13: a change is flagged destructive exactly when its type is drop_table or
\* recreate_table, and HasDestructive(plan) is true exactly when the plan
\* holds such a change.
C13_DestructivePredicate ==
    pc = "planned" =>
        /\ \A i \in DOMAIN plan :
            plan[i].Destructive <=> plan[i].Type \in {DropTable, RecreateTable}
        /\ HasDestructive(plan) <=>
            \E i \in DOMAIN plan : plan[i].Type \in {DropTable, RecreateTable}

\* a plan that drops a dependent object before its destructive change
C13_Witness ==
    /\ pc = "planned"
    /\ HasDestructive(plan)
    /\ ~plan[1].Destructive
    /\ \E i \in DOMAIN plan : plan[i].Type = DropTable
    /\ \E i \in DOMAIN plan : plan[i].Type = CreateIndex

\* the tables of both snapshots
Shared == DOMAIN from.Tables \cap DOMAIN to.Tables

\* a column of a is absent in b
ColumnRemoved(a, b) == \E k \in 1..Len(a.Columns) : ~HasColumn(b, a.Columns[k].Name)

\* a column of both is reported changed by the column comparator
ColumnAltered(a, b) ==
    \E k \in 1..Len(b.Columns) :
        /\ HasColumn(a, b.Columns[k].Name)
        /\ columnChanged(GetColumn(a, b.Columns[k].Name), b.Columns[k])

\* the columns of b that a does not have, in the order of b
NewColumns(a, b) == SelectSeq(b.Columns, LAMBDA col : ~HasColumn(a, col.Name))

\* C14: for a table of both snapshots with a column of from absent in to, or
\* a shared column reported changed, the plan holds exactly one recreate_table
\* for the table, flagged destructive, and no add_column for it, also when
\* to adds new columns.
C14_RemovedOrChangedRecreates ==
    pc = "planned" =>
        \A T \in Shared :
            (ColumnRemoved(from.Tables[T], to.Tables[T]) \/ ColumnAltered(from.Tables[T], to.Tables[T])) =>
                /\ Cardinality(Positions(plan, RecreateTable, T)) = 1
                /\ \A k \in Positions(plan, RecreateTable, T) : plan[k].Destructive
                /\ Positions(plan, AddColumn, T) = {}

\* a table with a changed column to which the target also adds a column
C14_Witness ==
    /\ pc = "planned"
    /\ \E T \in Shared :
        /\ ColumnAltered(from.Tables[T], to.Tables[T])
        /\ NewColumns(from.Tables[T], to.Tables[T]) # <<>>
        /\ Positions(plan, RecreateTable, T) # {}

\* the items of the normalized text of b, without the definitions of the
\* columns a does not have, are the items of the normalized text of a
OtherwiseUnchanged(a, b) ==
    LET ia == TableItems(normalizeTableSQL(a.SQL))
        ib == TableItems(normalizeTableSQL(b.SQL))
    IN  SelectSeq(ib, LAMBDA it : it = <<>> \/ IsConstraintItem(it) \/ HasColumn(a, it[1])) = ia

\* the columns of b are the columns of a followed by at least one new column,
\* with no shared column changed and the text otherwise unchanged
AppendOnly(a, b) ==
    /\ NewColumns(a, b) # <<>>
    /\ ColumnNames(b) = ColumnNames(a) \o [k \in 1..Len(NewColumns(a, b)) |-> NewColumns(a, b)[k].Name]
    /\ ~ColumnAltered(a, b)
    /\ OtherwiseUnchanged(a, b)

SameColumns(a, b) ==
    /\ ~ColumnRemoved(a, b)
    /\ NewColumns(a, b) = <<>>
    /\ ~ColumnAltered(a, b)

\* the positions of the changes of the plan made for an object
ChangesFor(cs, object) == {k \in 1..Len(cs) : cs[k].Object = object}

\* C16: for a table of both snapshots with the same column names and no
\* column reported changed, the plan holds one recreate_table (destructive)
\* and nothing else for the table when the two CREATE TABLE texts differ after
\* normalization with quote stripping, and no change for the table when the
\* texts are equal after it.
C16_ConstraintOnlyRecreates ==
    pc = "planned" =>
        \A T \in Shared :
            SameColumns(from.Tables[T], to.Tables[T]) =>
                IF normalizeTableSQL(from.Tables[T].SQL) # normalizeTableSQL(to.Tables[T].SQL)
                THEN /\ Cardinality(ChangesFor(plan, T)) = 1
                     /\ \A k \in ChangesFor(plan, T) :
                            plan[k].Type = RecreateTable /\ plan[k].Destructive
                ELSE ChangesFor(plan, T) = {}

\* a UNIQUE table constraint is added to a table whose columns stay
C16_Witness ==
    /\ pc = "planned"
    /\ \E T \in Shared :
        /\ SameColumns(from.Tables[T], to.Tables[T])
        /\ ~HasUniqueConstraint(from.Tables[T].SQL)
        /\ HasUniqueConstraint(to.Tables[T].SQL)
        /\ Positions(plan, RecreateTable, T) # {}

\* the three-way diff of one dependent object n of the maps fm and tm
ThreeWay(fm, tm, n, dropType, createType) ==
    LET drops == Positions(plan, dropType, n)
        creates == Positions(plan, createType, n)
    IN  IF n \notin DOMAIN fm THEN Cardinality(creates) = 1 /\ drops = {}
        ELSE IF n \notin DOMAIN tm THEN Cardinality(drops) = 1 /\ creates = {}
        ELSE IF normalizeSQL(fm[n].SQL) = normalizeSQL(tm[n].SQL) THEN drops = {} /\ creates = {}
        ELSE /\ Cardinality(drops) = 1
             /\ Cardinality(creates) = 1
             /\ \A d \in drops : \A c \in creates : d < c

\* the table that owns n: the table of its target definition, or of its
\* definition in from when to does not have it
Owner(fm, tm, n) == IF n \in DOMAIN tm THEN tm[n].Table ELSE fm[n].Table

C18_Deterministic ==
    pc = "planned" => \A ord \in Orders(from, to) : Diff(from, to, ord) = plan

\* columns are added to two tables, two of them to one table, so that the
\* enumeration order decides the order in which the changes are appended
C18_Witness ==
    /\ pc = "planned"
    /\ Cardinality({plan[k].Object : k \in {j \in 1..Len(plan) : plan[j].Type = AddColumn}}) = 2
    /\ \E T \in Shared : Cardinality(Positions(plan, AddColumn, T)) = 2
    /\ Cardinality(Orders(from, to)) > 1

\* the default the statement is to carry for a NOT NULL column of the type
\* that declares none
SynthesizedDefault(type) ==
    CASE type \in {"INTEGER", "INT", "BIGINT", "SMALLINT", "TINYINT"} -> <<"0">>
      [] type \in {"REAL", "FLOAT", "DOUBLE"} -> <<"0.0">>
      [] type = "BLOB" -> <<"X", "'", "'">>
      [] OTHER -> <<"'", "'">>

\* the column the add_column change at position k of the plan adds
AddedColumn(k) == GetColumn(to.Tables[plan[k].Object], plan[k].Description[2])

\* the tail of the ADD COLUMN statement at position k behind the column type
AddColumnTail(k) ==
    LET col == AddedColumn(k)
        head == <<"ALTER", " ", "TABLE", " ">> \o Q(plan[k].Object)
                \o <<" ", "ADD", " ", "COLUMN", " ">> \o Q(col.Name)
                \o (IF col.Type # "" THEN <<" ", col.Type>> ELSE <<>>)
        text == plan[k].SQL[1]
    IN  SubSeq(text, Len(head) + 1, Len(text))

\* C19: for a new NOT NULL column without a declared default the ADD COLUMN
\* statement omits NOT NULL and carries the default of the type family: 0 for
\* the integer types, 0.0 for the real types, X'' for BLOB, '' otherwise; a
\* NOT NULL column with a declared default keeps NOT NULL DEFAULT <expr>.
C19_SynthesizedDefault ==
    pc = "planned" =>
        \A k \in {j \in 1..Len(plan) : plan[j].Type = AddColumn} :
            AddedColumn(k).NotNull =>
                AddColumnTail(k) =
                    IF AddedColumn(k).Default = NoDefault
                    THEN <<" ", "DEFAULT", " ">> \o SynthesizedDefault(AddedColumn(k).Type) \o <<";">>
                    ELSE <<" ", "NOT", " ", "NULL", " ", "DEFAULT", " ">>
                         \o AddedColumn(k).Default[1] \o <<";">>

----------------------------------------------------------------------------
(* Properties of the apply command, checked under SpecCLI *)

\* the user answered yes or y to the prompt
AnsweredYes == \E k \in CmdAt(log, "Scanln") : log[k].ok /\ log[k].text \in {"yes", "y"}

\* C20: the apply command never calls the applier on a plan with a
\* destructive change unless --force was given or the user answered yes or y
\* to the prompt; with a destructive change, without --force and --dry-run,
\* and with any other answer or a failed read, the command returns without
\* applying anything.
C20_ConfirmDestructive ==
    /\ (CmdAt(log, "Apply") # {} /\ HasDestructive(plan)) => (opts.Force \/ AnsweredYes)
    /\ (pc = "done" /\ HasDestructive(plan) /\ ~opts.Force /\ ~opts.DryRun /\ ~AnsweredYes) =>
        /\ Len(log) = 1
        /\ log[1].cmd = "Scanln"
        /\ result = (IF log[1].ok THEN Nil ELSE "unexpected newline")

\* a destructive plan is applied after the answer y, without --force
C20_Witness ==
    /\ pc = "done"
    /\ HasDestructive(plan)
    /\ ~opts.Force
    /\ AnsweredYes
    /\ CmdAt(log, "Apply") # {}
    /\ result = Nil

\* C22: a table is handled by add_column changes only when, apart from the
\* appended columns, its normalized CREATE TABLE text is unchanged; a target
\* that appends a column and also adds, removes or changes a table constraint
\* does not get add_column changes alone.
C22_AddColumnOnlyWhenUnchanged ==
    pc = "planned" =>
        \A T \in Shared :
            Positions(plan, AddColumn, T) # {} =>
                OtherwiseUnchanged(from.Tables[T], to.Tables[T])

\* the CREATE TABLE text sql, which names its table behind CREATE TABLE, with
\* the name replaced by the quoted name and a semicolon at its end
Renamed(sql, name) ==
    LET len == IF sql[5] = "\"" THEN 3 ELSE 1 IN
    SubSeq(sql, 1, 4) \o <<"\"", name, "\"">> \o SubSeq(sql, 5 + len, Len(sql)) \o <<";">>

\* the names of the columns of b that a has, in the order of b, joined by ", "
SharedList(a, b) == JoinComma(SelectSeq(ColumnNames(b), LAMBDA n : HasColumn(a, n)))

\* INSERT INTO "T__new" (cols) SELECT cols FROM "T";
InsertText(T, cols) ==
    <<"INSERT", " ", "INTO", " ", "\"", TempName(T), "\"", " ", "(">> \o cols
    \o <<")", " ", "SELECT", " ">> \o cols \o <<" ", "FROM", " ", "\"", T, "\"", ";">>

\* C23: the recreate_table change for table T carries, in this order and
\* nothing else: the target CREATE TABLE text with the table name rewritten to
\* T__new; then, exactly when from and to have a column name in common, one
\* INSERT INTO "T__new" (cols) SELECT cols FROM "T"; over the columns of to
\* that from has, in the order of to; then DROP TABLE "T"; then
\* ALTER TABLE "T__new" RENAME TO "T";.
C23_RecreateSequence ==
    pc = "planned" =>
        \A k \in {j \in 1..Len(plan) : plan[j].Type = RecreateTable} :
            LET T == plan[k].Object
                cols == SharedList(from.Tables[T], to.Tables[T])
            IN  plan[k].SQL =
                    <<Renamed(to.Tables[T].SQL, TempName(T))>>
                    \o (IF cols # <<>> THEN <<InsertText(T, cols)>> ELSE <<>>)
                    \o << <<"DROP", " ", "TABLE", " ", "\"", T, "\"", ";">>,
                          <<"ALTER", " ", "TABLE", " ", "\"", TempName(T), "\"", " ",
                            "RENAME", " ", "TO", " ", "\"", T, "\"", ";">> >>

\* a table is recreated whose common columns stand in another order in from
C23_Witness ==
    /\ pc = "planned"
    /\ \E k \in 1..Len(plan) :
        /\ plan[k].Type = RecreateTable
        /\ Len(plan[k].SQL) = 4
        /\ commonColumns(from.Tables[plan[k].Object], to.Tables[plan[k].Object])
             # commonColumnsOfSource(from.Tables[plan[k].Object], to.Tables[plan[k].Object])

\* the create at position k of the plan comes after a change that removes the object
\* it creates: a drop of that name, or the recreation or the drop of the table that
\* owns the object in fm
RemovedBefore(fm, k, dropType) ==
    \E j \in 1..(k - 1) :
        \/ plan[j].Type = dropType /\ plan[j].Object = plan[k].Object
        \/ plan[j].Type \in {RecreateTable, DropTable} /\ plan[j].Object = fm[plan[k].Object].Table

\* C27: in every plan Diff returns, each create_index or create_trigger of a name that
\* from holds comes after a change that removes that object: a drop_index or
\* drop_trigger of the name, or a recreate_table or drop_table of the table that owns
\* the object in from.
C27_NoCreateOverLive ==
    pc = "planned" =>
        \A k \in 1..Len(plan) :
            /\ plan[k].Type = CreateIndex /\ plan[k].Object \in DOMAIN from.Indexes
                    => RemovedBefore(from.Indexes, k, DropIndex)
            /\ plan[k].Type = CreateTrigger /\ plan[k].Object \in DOMAIN from.Triggers
                    => RemovedBefore(from.Triggers, k, DropTrigger)

----------------------------------------------------------------------------
(* Properties of the functions called on their own, checked under SpecFn *)

\* the defaults differ: both absent is equal, one absent is a change, two
\* present defaults are compared after trimming and lowercasing
DefaultsDiffer(a, b) ==
    IF a.Default = NoDefault /\ b.Default = NoDefault THEN FALSE
    ELSE IF a.Default = NoDefault \/ b.Default = NoDefault THEN TRUE
    ELSE ToLower(TrimSpace(a.Default[1])) # ToLower(TrimSpace(b.Default[1]))

\* C24: columnChanged(a, b) is true exactly when the declared types differ
\* case-insensitively, or not_null differs, or exactly one of the two has
\* primary-key ordinal 0, or the defaults differ after trim-and-lowercase.
C24_ColumnComparator ==
    (pc = "returned" /\ args.fn = "columnChanged") =>
        (ret <=> \/ LowerWord(args.a.Type) # LowerWord(args.b.Type)
                 \/ args.a.NotNull # args.b.NotNull
                 \/ (args.a.PrimaryKey = 0) # (args.b.PrimaryKey = 0)
                 \/ DefaultsDiffer(args.a, args.b))

\* two columns that differ in the ordinal of the primary key and the case of
\* the type only are reported unchanged
C24_Witness ==
    /\ pc = "returned"
    /\ args.fn = "columnChanged"
    /\ args.a.PrimaryKey = 1
    /\ args.b.PrimaryKey = 2
    /\ args.a.Type # args.b.Type
    /\ args.a.Default # args.b.Default
    /\ ret = FALSE

\* C25: normalizeSQL(normalizeSQL(s)) = normalizeSQL(s) for every SQL text s
\* and either value of the strip-quotes flag, also for several trailing
\* semicolons, adjacent punctuation and string literals.
C25_NormalizeStable ==
    (pc = "returned" /\ args.fn = "normalizeSQL") =>
        normalizeSQL2(ret, args.stripQuotes) = ret

\* marks that stand for the literals and occur in no text
Marks == <<"LITERAL 0", "LITERAL 1", "LITERAL 2", "LITERAL 3">>

\* the normalized text with every literal of the input, as it was written, at
\* the place where it stood
LiteralsInPlace(sql, stripQuotes) ==
    Unmask(performNormalization(MaskedText(sql, 1, Marks), stripQuotes), Literals(sql), 1, Marks)

\* C26: normalizeSQL returns every single-quoted literal of its input byte
\* for byte and at the position of the literal it replaced, for any number of
\* literals and whatever the literals and the surrounding SQL contain.
C26_LiteralsPreserved ==
    (pc = "returned" /\ args.fn = "normalizeSQL") =>
        ret = LiteralsInPlace(args.sql, args.stripQuotes)

----------------------------------------------------------------------------
(* Properties of the applier on filtered plans and on its error paths, checked under Spec *)

\* the change at position c of cs, run after the changes before it on a database of
\* rows master, fails on a create of an index or trigger whose name is taken
CreateOverExisting(master, cs, c) ==
    LET before == RunAll(master, Statements(SubSeq(cs, 1, c - 1))) IN
    /\ cs[c].Type \in {CreateIndex, CreateTrigger}
    /\ Exists(before, {"table", "view", "index", "trigger"}, cs[c].Object)
    /\ \E j \in 1..Len(cs[c].SQL) : ~Exec(before, TrimSpace(cs[c].SQL[j])).ok

\* C28: the plan without its destructive changes, which Apply executes under
\* SkipDestructive, runs against the database of schema from without a create_index or
\* create_trigger failing because the object already exists.
C28_FilteredExecutable ==
    (opts.SkipDestructive /\ ~opts.DryRun /\ pc # "start" /\ result # Err.compare) =>
        /\ changes = SelectSeq(plan, LAMBDA c : ~c.Destructive)
        /\ \A c \in 1..Len(changes) : ~CreateOverExisting(db0, changes, c)

\* C29: when Apply has returned after PRAGMA foreign_keys = OFF went through, it has
\* issued PRAGMA foreign_keys = ON after it, also when a statement of the plan failed.
C29_FKRestored ==
    pc = "done" =>
        \A k \in CmdAt(log, "PRAGMA foreign_keys = OFF") :
            log[k].ok => \E j \in CmdAt(log, "PRAGMA foreign_keys = ON") : j > k

\* C30: when extracting the schema of the database or loading the schema files fails,
\* Apply returns the error of Compare, Diff has not been called (there is no plan and no
\* extracted snapshot), and Apply has created no backup, begun no transaction and
\* executed no statement: the database and the file at BackupPath are as before.
C30_LoadFailure ==
    result = Err.compare =>
        /\ pc = "done"
        /\ from = NewDatabase
        /\ plan = <<>>
        /\ changes = <<>>
        /\ log = <<>>
        /\ ~tx.open
        /\ backup \in {NoFile, OldFile}
        /\ backup # File(db0)
        /\ db = db0

\* Compare fails where the call would have written a backup and executed a plan
C30_Witness ==
    /\ result = Err.compare
    /\ pc = "done"
    /\ ~opts.DryRun
    /\ opts.BackupPath # ""
    /\ backup = OldFile
    /\ \A ord \in Orders(extractSchema(db), to) : Diff(extractSchema(db), to, ord) # <<>>

----------------------------------------------------------------------------
(* Properties of the loader, checked under SpecRead *)

\* the filesystem the package variable selects
Selected == IF baseFS # NoFS THEN baseFS ELSE disk

\* C21: when ReadFiles(dir) has returned, the paths were discovered in the selected
\* filesystem (the base filesystem if one is set, else the operating system) and the
\* texts executed on the in-memory database are the contents of those paths in that same
\* filesystem, in ascending order of the paths
C21_BaseFSSelection ==
    pc = "returned" /\ args.fn = "ReadFiles" => ret = ReadFilesFrom(args.dir, Selected)

====
